---------------------------- MODULE Spec2Model ----------------------------
(***************************************************************************)
(* Decimal <-> binary floating-point conversion of abolz/Drachennest        *)
(* (scripts/baseconv.py, scripts/dtoa/*.py).                                *)
(*                                                                         *)
(* The scripts are parametric in the format (PRECISION, EXPONENT_BITS) and *)
(* use Python's unbounded integers.  TLC's integers are 32 bit wide, so    *)
(* the format is instantiated at a small size (the scripts ship 53/11 and  *)
(* carry 24/8 as a commented alternative); every derived constant          *)
(* (HIDDEN_BIT, BIAS, MIN_EXPONENT, MAX_EXPONENT) is computed from the two *)
(* parameters exactly as the scripts compute it.  The width of the cached  *)
(* powers of five is scaled with the format.                               *)
(***************************************************************************)
EXTENDS Integers, Sequences, FiniteSets, TLC

VARIABLES
    mode,   \* "format": a binary float is printed by the three printers;
            \* "roundtrip": it is printed, parsed back and printed again;
            \* "parse": a decimal is parsed; "power", "log", "double":
            \* the power generators, the test of the log functions or
            \* a run at PRECISION = 53 is under way
    flt,    \* the binary float handed to Dtoa: [f, e]
    dec,    \* the decimal handed to BinaryFromDecimal: [d, k]
    done,   \* the conversions that have run on this input
    src,    \* BinaryFromFraction of flt: f, e, p, isExact (DtoaPow2)
    bd,     \* BurgerDybvig(src.f, src.e)
    ryu,    \* DtoaRyu(src.f, src.e)
    adams,  \* DtoaAdams(src.f, src.e)
    back,   \* BinaryFromDecimal(printed decimal)
    again,  \* BurgerDybvig(back.f, back.e)
    bin,    \* BinaryFromDecimal(dec.d, dec.k)
    table,  \* the module-level list CachedPow5 of dtoa_ryu.py
    pw,     \* the arguments of the power generators: [k, bits]
    powers, \* what each power generator returned for pw
    logExp, \* the exponent e of the test of the log functions
    pow2,   \* 2^logExp, in decimal limbs
    prevDigits, \* the number of decimal digits of 2^(logExp - 1)
    dbl,    \* the run of Dtoa or DtoaPow2 at PRECISION = 53: its position
            \* (pc) and the locals of BinaryFromFraction and BurgerDybvig
    dryu,   \* the run of DtoaRyu at PRECISION = 53 on the float that dbl
            \* holds: its position (pc) and the locals of DtoaRyu
    call,   \* a call of one of the helper functions: its name and arguments
    ret,    \* what that call returned
    run     \* a loop of a conversion that is followed iteration by
            \* iteration: its position (pc), the number n of iterations
            \* made, and the variables t of the loop

\* The variables of the power generators.
powerVars == <<pw, powers>>

\* The variables of the test of the log functions.
logVars == <<logExp, pow2, prevDigits>>

\* The variables of the conversions.
convVars == <<mode, flt, dec, done, src, bd, ryu, adams, back, again, bin,
              table>>

\* The variables of the calls of the helper functions and of the loops
\* that are followed iteration by iteration.
toolVars == <<call, ret, run>>

vars == <<convVars, powerVars, logVars, dbl, dryu, toolVars>>

---------------------------------------------------------------------------
(* Format parameters and model bounds                                      *)

PRECISION == 5
EXPONENT_BITS == 5

HIDDEN_BIT == 2^(PRECISION - 1)
BIAS == 2^(EXPONENT_BITS - 1) - 1 + (PRECISION - 1)
MIN_EXPONENT == 1 - BIAS
MAX_EXPONENT == 2^EXPONENT_BITS - 2 - BIAS

\* Decimal inputs d * 10^k of the parser: 1 <= d <= MaxDecimal,
\* -MaxNegDecExp <= k <= MaxPosDecExp.
MaxDecimal == 400
MaxNegDecExp == 6
MaxPosDecExp == 5

\* The power generators are run for k in -MaxPowK .. MaxPowK and
\* bits in 1 .. MaxPowBits.
MaxPowK == 5
MaxPowBits == 9

\* The log functions are tested for the powers 2^0 .. 2^MaxLogPow2.
MaxLogPow2 == 42040

Max(a, b) == IF a >= b THEN a ELSE b
Min(a, b) == IF a <= b THEN a ELSE b

---------------------------------------------------------------------------
(* Decimal to binary (baseconv.py)                                         *)

\* while num >= 2**p * den: den *= 2; e += 1
ScaleDownGuard(num, den, p) == num >= 2^p * den

RECURSIVE ScaleDown(_, _, _, _)
ScaleDown(num, den, e, p) ==
    IF ScaleDownGuard(num, den, p)
    THEN ScaleDown(num, den * 2, e + 1, p)
    ELSE [num |-> num, den |-> den, e |-> e]

\* while num < 2**(p - 1) * den: num *= 2; e -= 1
ScaleUpGuard(num, den, p) == num < 2^(p - 1) * den

RECURSIVE ScaleUp(_, _, _, _)
ScaleUp(num, den, e, p) ==
    IF ScaleUpGuard(num, den, p)
    THEN ScaleUp(num * 2, den, e - 1, p)
    ELSE [num |-> num, den |-> den, e |-> e]

\* The guard of the subnormal loop.
\* A loop that also gives up the last bit of precision.
ReduceGuardToZero(e, p) == e < MIN_EXPONENT /\ p > 0
ReduceGuard(e, p) == e < MIN_EXPONENT /\ p > 1

\* while e < MIN_EXPONENT and p > 1: den *= 2; e += 1; p -= 1
RECURSIVE ReducePrecision(_, _, _)
ReducePrecision(den, e, p) ==
    IF ReduceGuard(e, p)
    THEN ReducePrecision(den * 2, e + 1, p - 1)
    ELSE [den |-> den, e |-> e, p |-> p]

\* isExact = (r == 0)
\* A flag that ignores the remainder.
IsExactAlways(r) == r >= 0
IsExact(r) == r = 0

\* if 2 * r > den or (2 * r == den and (f % 2) != 0)
\* Other roundings: ties away from zero, ties toward zero, truncation.
RoundHalfUp(f, r, den) == 2 * r >= den
RoundHalfDown(f, r, den) == 2 * r > den
RoundTowardZero(f, r, den) == FALSE
RoundUp(f, r, den) == 2 * r > den \/ (2 * r = den /\ f % 2 # 0)

\* Divide and round without 'e += 1' after the overflow.
DivideAndRoundKeepExponent(num, den, e, p) ==
    [f |-> IF ~IsExact(num % den) /\ RoundUp(num \div den, num % den, den)
              /\ num \div den + 1 = 2^PRECISION
           THEN 2^(PRECISION - 1)
           ELSE IF ~IsExact(num % den)
                   /\ RoundUp(num \div den, num % den, den)
                THEN num \div den + 1 ELSE num \div den,
     e |-> e,
     p |-> p,
     isExact |-> IsExact(num % den),
     q |-> num \div den,
     asserts |-> num \div den >= 0 /\ num \div den < 2^PRECISION]

\* Divide and round: f, r = divmod(num, den), round to nearest-even, and move
\* a trailing zero into the exponent when the increment reaches 2**PRECISION.
DivideAndRound(num, den, e, p) ==
    LET q == num \div den
        r == num % den
        isExact == IsExact(r)
        up == ~isExact /\ RoundUp(q, r, den)
        f1 == IF up THEN q + 1 ELSE q
        carry == up /\ f1 = 2^PRECISION
    IN  [f |-> IF carry THEN 2^(PRECISION - 1) ELSE f1,
         e |-> IF carry THEN e + 1 ELSE e,
         p |-> p,
         isExact |-> isExact,
         q |-> q,
         asserts |-> /\ q >= 0 /\ q < 2^PRECISION
                     /\ (IF carry THEN 2^(PRECISION - 1) ELSE f1) > 0
                     /\ (IF carry THEN 2^(PRECISION - 1) ELSE f1) < 2^PRECISION]

\* assert num != 0; assert den != 0
\* A precondition that also rejects the fraction 1 / den.
MoreThanOne(num, den) == num > 1 /\ den # 0
NonZeroFraction(num, den) == num # 0 /\ den # 0

\* A failed precondition raises before the loops run: f, e, p and isExact
\* are not assigned, and asserts records the AssertionError.  (With num = 0
\* the second scaling loop, whose guard 0 < 2**(p - 1) * den stays true,
\* would not terminate.)
BinaryFromFraction(num, den) ==
    IF ~NonZeroFraction(num, den)
    THEN [f |-> 0, e |-> 0, p |-> PRECISION, isExact |-> TRUE, q |-> 0,
          asserts |-> FALSE]
    ELSE LET s1 == ScaleDown(num, den, 0, PRECISION)
             s2 == ScaleUp(s1.num, s1.den, s1.e, PRECISION)
             s3 == ReducePrecision(s2.den, s2.e, PRECISION)
         IN  DivideAndRound(s2.num, s3.den, s3.e, s3.p)

\* The fraction BinaryFromDecimal hands to BinaryFromFraction.
DecimalFraction(d, k) ==
    IF k >= 0
    THEN [num |-> d * 10^k, den |-> 1]
    ELSE [num |-> d, den |-> 10^(-k)]

BinaryFromDecimal(d, k) ==
    BinaryFromFraction(DecimalFraction(d, k).num, DecimalFraction(d, k).den)

\* DtoaPow2: the fraction significand * 2^e handed to BinaryFromFraction.
Pow2Fraction(e, significand) ==
    IF e >= 0
    THEN [num |-> 2^e * significand, den |-> 1]
    ELSE [num |-> 1 * significand, den |-> 2^(-e)]

DtoaPow2Fraction(e, significand) ==
    BinaryFromFraction(Pow2Fraction(e, significand).num,
                       Pow2Fraction(e, significand).den)

---------------------------------------------------------------------------
(* Binary to decimal: Burger & Dybvig (baseconv.py)                        *)

\* p = PRECISION; while f < 2**(PRECISION - 1): f *= 2; p -= 1
RECURSIVE EffectivePrecisionLoop(_, _)
EffectivePrecisionLoop(f, p) ==
    IF f < 2^(PRECISION - 1)
    THEN EffectivePrecisionLoop(f * 2, p - 1)
    ELSE p

EffectivePrecision(f) == EffectivePrecisionLoop(f, PRECISION)

\* An estimate that is one less.
CeilLog10Pow2Less(e) == (e * 78913 + (2^18 - 1)) \div 2^18 - 1

\* (int(e) * 78913 + (2**18 - 1)) // 2**18
CeilLog10Pow2(e) == (e * 78913 + (2^18 - 1)) \div 2^18

\* lowerBoundaryIsCloser = (f == HIDDEN_BIT and e != MIN_EXPONENT)
LowerBoundaryIsCloser(f, e) == f = HIDDEN_BIT /\ e # MIN_EXPONENT

\* Init: r / s = f * 2^e, mp / s and mm / s the distances to the midpoints.
BurgerDybvigInit(f, e) ==
    LET a == IF e >= 0
             THEN [r |-> f * 2 * 2^e, s |-> 2, mp |-> 2^e, mm |-> 2^e]
             ELSE [r |-> f * 2, s |-> 2^(-e) * 2, mp |-> 1, mm |-> 1]
    IN  IF LowerBoundaryIsCloser(f, e)
        THEN [r |-> a.r * 2, s |-> a.s * 2, mp |-> a.mp * 2, mm |-> a.mm]
        ELSE a

\* The comparison of the upper bound with s: used by the fixup and as tc2.
\* (r + mp >= s) if acceptBounds else (r + mp > s)
HighTest(r, mp, s, acceptBounds) ==
    IF acceptBounds THEN r + mp >= s ELSE r + mp > s

\* tc1 = (r <= mm) if acceptBounds else (r < mm)
\* A low test that never accepts the lower boundary itself.
LowTestStrict(r, mm, acceptBounds) == r < mm
LowTest(r, mm, acceptBounds) ==
    IF acceptBounds THEN r <= mm ELSE r < mm

\* Estimate: if k >= 0: s *= 10**k, else: r, mp, mm are scaled by 10**(-k);
\* i is what Init left in r, s, mp, mm.
BurgerDybvigEstimate(i, k0) ==
    IF k0 >= 0
    THEN [r |-> i.r, s |-> i.s * 10^k0, mp |-> i.mp, mm |-> i.mm]
    ELSE [r |-> i.r * 10^(-k0), s |-> i.s,
          mp |-> i.mp * 10^(-k0), mm |-> i.mm * 10^(-k0)]

\* Fixup, and the two assertions on the scaled r, s, mp; a is what the
\* estimate left in r, s, mp, mm.
BurgerDybvigFixup(a, k0, acceptBounds) ==
    LET fix == HighTest(a.r, a.mp, a.s, acceptBounds)
        s1 == IF fix THEN a.s * 10 ELSE a.s
    IN  [r |-> a.r, s |-> s1,
         mp |-> a.mp, mm |-> a.mm,
         k |-> IF fix THEN k0 + 1 ELSE k0, k0 |-> k0,
         asserts |-> /\ (IF acceptBounds THEN a.r + a.mp < s1
                                         ELSE a.r + a.mp <= s1)
                     /\ (IF acceptBounds THEN (a.r + a.mp) * 10 >= s1
                                         ELSE (a.r + a.mp) * 10 > s1)]

\* Estimate k = CeilLog10Pow2(e + (p - 1)), scale, and fix up once.
BurgerDybvigScale(f, e, acceptBounds) ==
    LET k0 == CeilLog10Pow2(e + (EffectivePrecision(f) - 1))
    IN  BurgerDybvigFixup(BurgerDybvigEstimate(BurgerDybvigInit(f, e), k0),
                          k0, acceptBounds)

\* if (r * 2 > s) or (r * 2 == s and q % 2 != 0): q += 1
CloserIsUp(r, s, q) == r * 2 > s \/ (r * 2 = s /\ q % 2 # 0)

\* A digit that is incremented in every iteration.
LastDigitIncremented(q, r, s, tc1, tc2) == q + 1

\* The digit appended by one iteration of the generation loop.
LastDigit(q, r, s, tc1, tc2) ==
    IF tc1 /\ tc2
    THEN (IF CloserIsUp(r, s, q) THEN q + 1 ELSE q)
    ELSE IF ~tc1 /\ tc2 THEN q + 1 ELSE q

\* The digits and the exponent the rest of the loop returns, after an
\* iteration whose assertions held or not; st is what that iteration
\* started from and what it appended.
GenerateRest(ok, st, rest) ==
    [digits |-> rest.digits, k |-> rest.k, asserts |-> ok /\ rest.asserts,
     steps |-> <<st>> \o rest.steps]

\* One iteration of the generation loop, from r, mp, mm of the iteration
\* before: the quotient q, the digit that is appended, the new r, mp, mm,
\* whether the loop ends (tc1 or tc2), and the assertions of the iteration.
GenerateIteration(r0, s, mp0, mm0, acceptBounds) ==
    LET r10 == r0 * 10
        mp  == mp0 * 10
        mm  == mm0 * 10
        q   == r10 \div s
        r   == r10 % s
        tc1 == LowTest(r, mm, acceptBounds)
        tc2 == HighTest(r, mp, s, acceptBounds)
        dq  == LastDigit(q, r, s, tc1, tc2)
    IN  [r |-> r, mp |-> mp, mm |-> mm, q |-> q, digit |-> dq,
         last |-> tc1 \/ tc2,
         ok |-> r0 > 0 /\ q <= 9 /\ dq >= 0 /\ dq <= 9]

\* Generate: one digit per iteration until a termination condition holds.
RECURSIVE Generate(_, _, _, _, _, _, _)

\* The loop after the iteration it.
GenerateNext(it, r0, s, acceptBounds, d, k) ==
    IF it.last
    THEN [digits |-> Append(d, it.digit), k |-> k - 1, asserts |-> it.ok,
          steps |-> <<[r |-> r0, q |-> it.q, digit |-> it.digit]>>]
    ELSE GenerateRest(it.ok, [r |-> r0, q |-> it.q, digit |-> it.digit],
                      Generate(it.r, s, it.mp, it.mm, acceptBounds,
                               Append(d, it.digit), k - 1))

Generate(r0, s, mp0, mm0, acceptBounds, d, k) ==
    GenerateNext(GenerateIteration(r0, s, mp0, mm0, acceptBounds),
                 r0, s, acceptBounds, d, k)

\* return d, k, after the assertions on f and e, those of Scale (sc) and
\* those of Generate (g).
BurgerDybvigReturn(f, e, sc, g) ==
    [digits |-> g.digits, k |-> g.k,
     asserts |-> /\ f > 0 /\ f < 2^PRECISION
                 /\ e >= MIN_EXPONENT /\ e <= MAX_EXPONENT
                 /\ sc.asserts
                 /\ g.asserts,
     scale |-> [r |-> sc.r, s |-> sc.s, mp |-> sc.mp, k |-> sc.k,
                k0 |-> sc.k0, asserts |-> sc.asserts],
     steps |-> g.steps]

\* Generate, from what Scale left in r, s, mp, mm and k.
BurgerDybvigGenerate(f, e, acceptBounds, sc) ==
    BurgerDybvigReturn(f, e, sc,
        Generate(sc.r, sc.s, sc.mp, sc.mm, acceptBounds, <<>>, sc.k))

BurgerDybvig(f, e) ==
    BurgerDybvigGenerate(f, e, f % 2 = 0, BurgerDybvigScale(f, e, f % 2 = 0))

\* int(''.join(map(str, d))): the digits' decimal strings, concatenated.
RECURSIVE DigitsToInt(_)
DigitsToInt(d) ==
    IF d = <<>> THEN 0
    ELSE LET q == d[Len(d)]
         IN  DigitsToInt(SubSeq(d, 1, Len(d) - 1)) * (IF q < 10 THEN 10 ELSE 100) + q

\* The digits r.digits of BurgerDybvig joined into one int.
ShortestDecimalOf(r) ==
    [d |-> DigitsToInt(r.digits), k |-> r.k, digits |-> r.digits,
     asserts |-> r.asserts, scale |-> r.scale, steps |-> r.steps]

ShortestDecimalFromBinary(f, e, p) == ShortestDecimalOf(BurgerDybvig(f, e))

---------------------------------------------------------------------------
(* Unbounded integers of DtoaAdams                                         *)
(*                                                                         *)
(* DtoaAdams scales u, v, w by 5^(-e2), which exceeds 32 bits even in a    *)
(* small format.  Its values are kept as two limbs, hi * 10^8 + lo with    *)
(* 0 <= lo < 10^8, and the operators below are Python's *, /, %, <, ==,    *)
(* - 1 and + 1 on such a number.                                           *)

WideBase == 10^8

Wide(n) == [hi |-> n \div WideBase, lo |-> n % WideBase]

\* a * m for a small factor m
WideTimes(a, m) ==
    LET l == a.lo * m
    IN  [hi |-> a.hi * m + l \div WideBase, lo |-> l % WideBase]

\* a * m**n
RECURSIVE WideTimesPow(_, _, _)
WideTimesPow(a, m, n) ==
    IF n = 0 THEN a ELSE WideTimesPow(WideTimes(a, m), m, n - 1)

\* a / 10 (integer division), a % 10, a % 2
WideDiv10(a) ==
    [hi |-> a.hi \div 10, lo |-> (a.hi % 10) * (WideBase \div 10) + a.lo \div 10]
WideMod10(a) == a.lo % 10
WideMod2(a) == a.lo % 2

WideLess(a, b) == a.hi < b.hi \/ (a.hi = b.hi /\ a.lo < b.lo)

\* a - 1 (a > 0) and a + 1
WideDec(a) ==
    IF a.lo = 0 THEN [hi |-> a.hi - 1, lo |-> WideBase - 1]
    ELSE [hi |-> a.hi, lo |-> a.lo - 1]
WideInc(a) ==
    IF a.lo = WideBase - 1 THEN [hi |-> a.hi + 1, lo |-> 0]
    ELSE [hi |-> a.hi, lo |-> a.lo + 1]

WideValue(a) == a.hi * WideBase + a.lo

---------------------------------------------------------------------------
(* Binary to decimal: Adams (dtoa/dtoa_adams.py)                           *)

\* lowerBoundaryIsCloser = (m2 == HIDDEN_BIT and e2 > MIN_EXPONENT)
AdamsLowerBoundaryIsCloser(m2, e2) == m2 = HIDDEN_BIT /\ e2 > MIN_EXPONENT

\* Step 2: u, v, w, and e2 -= 2
AdamsBounds(m2, e2) ==
    [u |-> 4 * m2 - 2 + (IF AdamsLowerBoundaryIsCloser(m2, e2) THEN 1 ELSE 0),
     v |-> 4 * m2,
     w |-> 4 * m2 + 2,
     e2 |-> e2 - 2]

\* Step 3: (a, b, c) = (u, v, w) * 2^e2 (e10 = 0) or (u, v, w) * 5^(-e2) (e10 = e2)
AdamsScale(m2, e2) ==
    LET s == AdamsBounds(m2, e2)
    IN  IF s.e2 >= 0
        THEN [a |-> WideTimesPow(Wide(s.u), 2, s.e2),
              b |-> WideTimesPow(Wide(s.v), 2, s.e2),
              c |-> WideTimesPow(Wide(s.w), 2, s.e2),
              e10 |-> 0]
        ELSE [a |-> WideTimesPow(Wide(s.u), 5, 0 - s.e2),
              b |-> WideTimesPow(Wide(s.v), 5, 0 - s.e2),
              c |-> WideTimesPow(Wide(s.w), 5, 0 - s.e2),
              e10 |-> s.e2]

\* if not acceptLarger: c -= 1
\* An upper bound that always includes the upper boundary.
AdamsUpperInclusive(c, acceptLarger) == c
AdamsUpper(c, acceptLarger) == IF ~acceptLarger THEN WideDec(c) ELSE c

\* while a / 10 < c / 10: the digit-removal loop
AdamsRemoveDigitsGuard(t) == WideLess(WideDiv10(t.a), WideDiv10(t.c))

\* One iteration of the loop.
AdamsRemoveDigitsBody(t) ==
    [a |-> WideDiv10(t.a), b |-> WideDiv10(t.b), c |-> WideDiv10(t.c),
     e10 |-> t.e10 + 1,
     atz |-> t.atz /\ WideMod10(t.a) = 0,
     btz |-> t.btz /\ t.bi = 0,
     bi |-> WideMod10(t.b),
     steps |-> Append(t.steps, [a |-> WideDiv10(t.a),
                                c |-> WideDiv10(t.c)])]

RECURSIVE AdamsRemoveDigits(_)
AdamsRemoveDigits(t) ==
    IF AdamsRemoveDigitsGuard(t) THEN AdamsRemoveDigits(AdamsRemoveDigitsBody(t)) ELSE t

\* while a % 10 == 0: the trailing-zero loop
AdamsRemoveZerosGuard(t) == WideMod10(t.a) = 0

\* One iteration of the loop.
AdamsRemoveZerosBody(t) ==
    [a |-> WideDiv10(t.a), b |-> WideDiv10(t.b), c |-> WideDiv10(t.c),
     e10 |-> t.e10 + 1,
     atz |-> t.atz,
     btz |-> t.btz /\ t.bi = 0,
     bi |-> WideMod10(t.b),
     steps |-> Append(t.steps, [a |-> WideDiv10(t.a),
                                c |-> WideDiv10(t.c)])]

RECURSIVE AdamsRemoveZeros(_)
AdamsRemoveZeros(t) ==
    IF AdamsRemoveZerosGuard(t) THEN AdamsRemoveZeros(AdamsRemoveZerosBody(t)) ELSE t

\* roundDown = bi < 5 or (bi == 5 and btz and b % 2 == 0)
\* A rounding of the last digit that rounds every tie up.
AdamsRoundDownBelowFive(bi, btz, b) == bi < 5
AdamsRoundDown(bi, btz, b) == bi < 5 \/ (bi = 5 /\ btz /\ WideMod2(b) = 0)

\* if (not roundDown and b < c) or (a == b and not atz): b += 1
AdamsIncrement(t, roundDown) ==
    (~roundDown /\ WideLess(t.b, t.c)) \/ (t.a = t.b /\ ~t.atz)

\* DtoaAdams up to its loops: Steps 2 and 3, if not acceptLarger: c -= 1,
\* and the record t the first loop starts from.
AdamsStart(m2, e2) ==
    LET isEven == (m2 % 2 = 0)
        acceptSmaller == isEven
        acceptLarger == isEven
        s  == AdamsScale(m2, e2)
    IN  [acceptSmaller |-> acceptSmaller,
         ok |-> WideLess(s.a, WideDec(s.c)),
         a |-> s.a, b |-> s.b, c |-> s.c,
         t |-> [a |-> s.a, b |-> s.b, c |-> AdamsUpper(s.c, acceptLarger),
                e10 |-> s.e10, atz |-> TRUE, btz |-> TRUE, bi |-> 0,
                steps |-> <<>>]]

\* The return after the loops, which left t2.
AdamsReturn(st, t2, roundDown) ==
    [d |-> WideValue(IF AdamsIncrement(t2, roundDown)
                     THEN WideInc(t2.b) ELSE t2.b),
     k |-> t2.e10,
     asserts |-> st.ok,
     a |-> st.a, b |-> st.b, c |-> st.c, steps |-> t2.steps]

AdamsZeros(st, t2) ==
    AdamsReturn(st, t2, AdamsRoundDown(t2.bi, t2.btz, t2.b))

\* The loops from t1, what the first loop left.
AdamsLoops(st, t1) ==
    AdamsZeros(st, IF st.acceptSmaller /\ t1.atz
                   THEN AdamsRemoveZeros(t1) ELSE t1)

DtoaAdams(m2, e2) ==
    AdamsLoops(AdamsStart(m2, e2), AdamsRemoveDigits(AdamsStart(m2, e2).t))

---------------------------------------------------------------------------
(* Binary to decimal: Ryu (dtoa/dtoa_ryu.py)                               *)

\* (e * 38955489) >> 24, on Python's unbounded integers.  The product is
\* taken in two parts, 38955489 = 9510 * 2^12 + 2529, which keeps every
\* intermediate value below 2^31 on the whole asserted domain:
\* (e * 9510 * 2^12 + e * 2529) >> 24 = (e * 9510 + ((e * 2529) >> 12)) >> 12.
FloorLog2Pow5(e) == (e * 9510 + (e * 2529) \div 2^12) \div 2^12

\* Ceil(num, den): q, r = divmod(num, den); if r > 0: q += 1
Ceil(num, den) ==
    IF num % den > 0 THEN num \div den + 1 ELSE num \div den

\* A generator that rounds down for negative k as well.
ComputePow5Floor(k, bits) ==
    LET e == FloorLog2Pow5(k) + 1 - bits
    IN  IF k >= 0
        THEN (IF e > 0 THEN 5^k \div 2^e ELSE 5^k * 2^(0 - e))
        ELSE 2^(0 - e) \div 5^(0 - k)

\* ComputePow5(k, bits): the bits-wide significand of 5^k.
ComputePow5(k, bits) ==
    LET e == FloorLog2Pow5(k) + 1 - bits
    IN  IF k >= 0
        THEN (IF e > 0 THEN 5^k \div 2^e ELSE 5^k * 2^(0 - e))
        ELSE Ceil(2^(0 - e), 5^(0 - k))

\* The width of the cached powers (128 for the 53-bit format).
CachedPow5Bits == 21
CachedPow5MinDecExp == -290
CachedPow5MaxDecExp == 325

\* compute_table_sizes.py: (e * 20201781) >> 26 and (e * 46907083) >> 26 on
\* unbounded integers, for 0 <= e <= 28737.  The products are taken in two
\* parts, 20201781 = 2466 * 2^13 + 309 and 46907083 = 5725 * 2^13 + 7883,
\* which keeps every intermediate value below 2^31.
TableSizeLogMaxExp == 28737
TableSizeFloorLog10Pow2(e) == (e * 2466 + (e * 309) \div 2^13) \div 2^13
TableSizeFloorLog10Pow5(e) == (e * 5725 + (e * 7883) \div 2^13) \div 2^13

\* ComputeTableSize: the decimal exponents min_pow .. max_pow whose powers
\* of 5 a format reads (-290 .. 325 for the 53-bit format), with the
\* assertions of the two log functions on their arguments.
ComputeTableSize(exponent_bits, explicit_mantissa_bits) ==
    LET bias == 2^(exponent_bits - 1) - 1
        min_e2 == 1 - bias - explicit_mantissa_bits - 2
        max_e2 == (2^exponent_bits - 2) - bias - explicit_mantissa_bits - 2
        q_for_pos_e2 == Max(0, TableSizeFloorLog10Pow2(max_e2) - 1)
        q_for_neg_e2 == Max(0, TableSizeFloorLog10Pow5(0 - min_e2) - 1)
    IN  [min_pow |-> 0 - q_for_pos_e2,
         max_pow |-> (0 - min_e2) - q_for_neg_e2,
         asserts |-> /\ max_e2 >= 0 - TableSizeLogMaxExp
                     /\ max_e2 <= TableSizeLogMaxExp
                     /\ 0 - min_e2 >= 0 - TableSizeLogMaxExp
                     /\ 0 - min_e2 <= TableSizeLogMaxExp]

\* The list CachedPow5 when the module has been loaded:
\* [ComputePow5(k, bits=CachedPow5Bits) for k in range(CachedPow5MinDecExp,
\* CachedPow5MaxDecExp + 1)].  The model keeps the entries that the format
\* reads, at the indices they have in the list.
CachedPow5Initial ==
    LET size == ComputeTableSize(EXPONENT_BITS, PRECISION - 1)
    IN  [i \in (size.min_pow - CachedPow5MinDecExp)
                .. (size.max_pow - CachedPow5MinDecExp) |->
            ComputePow5(i + CachedPow5MinDecExp, CachedPow5Bits)]

\* CachedPow5[i]
CachedPow5(i) == table[i]

\* pow5 = CachedPow5[e5 - CachedPow5MinDecExp] is a subscription: the list t
\* after it is the list before it.
\* A read that takes the entry out of the list.
CachedPow5AfterPop(t, i) == [t EXCEPT ![i] = 0]
CachedPow5AfterRead(t, i) == t

\* The approximation with an 8-bit shift, exact only for |e| <= 102.
FloorLog10Pow2Short(e) == (e * 77) \div 2^8

\* (e * 315653) >> 20
FloorLog10Pow2(e) == (e * 315653) \div 2^20

\* (e * 732923) >> 20
FloorLog10Pow5(e) == (e * 732923) \div 2^20

\* (x * y) >> j
\* A shift that drops three more bits of the product.
MulShiftFurther(x, y, j) == (x * y) \div 2^(j + 3)
MulShift(x, y, j) == (x * y) \div 2^j

MulPow5DivPow2(u, v, w, e5, e2) ==
    LET k == FloorLog2Pow5(e5) + 1 - CachedPow5Bits
        j == e2 - k
        pow5 == CachedPow5(e5 - CachedPow5MinDecExp)
    IN  [a |-> MulShift(u, pow5, j),
         b |-> MulShift(v, pow5, j),
         c |-> MulShift(w, pow5, j),
         asserts |-> /\ e5 >= CachedPow5MinDecExp
                     /\ e5 <= CachedPow5MaxDecExp
                     /\ j >= 0]

MultipleOfPow5(value, e5) == IF e5 <= 0 THEN TRUE ELSE value % 5^e5 = 0

MultipleOfPow2(value, e2) == IF e2 <= 0 THEN TRUE ELSE value % 2^e2 = 0

\* lowerBoundaryIsCloser = (m2 == HIDDEN_BIT and e2 > MIN_EXPONENT)
RyuLowerBoundaryIsCloser(m2, e2) == m2 = HIDDEN_BIT /\ e2 > MIN_EXPONENT

\* Step 2: e2 -= 2 and u, v, w
\* Bounds whose lower one moves away from v at a power of two.
RyuBoundsOutward(m2, e2) ==
    [u |-> 4 * m2 - 2 - (IF RyuLowerBoundaryIsCloser(m2, e2) THEN 1 ELSE 0),
     v |-> 4 * m2,
     w |-> 4 * m2 + 2,
     e2 |-> e2 - 2]
RyuBounds(m2, e2) ==
    [u |-> 4 * m2 - 2 + (IF RyuLowerBoundaryIsCloser(m2, e2) THEN 1 ELSE 0),
     v |-> 4 * m2,
     w |-> 4 * m2 + 2,
     e2 |-> e2 - 2]

\* Step 3: q, e10 and the trailing-zero flags atz, btz, ctz
RyuFlags(s, acceptBounds, lowerBoundaryIsCloser) ==
    IF s.e2 >= 0
    THEN LET q_prime == FloorLog10Pow2(s.e2)
             q == Max(0, q_prime - 1)
             five == q <= 22
         IN  [q_prime |-> q_prime, q |-> q, e10 |-> q,
              btz |-> five /\ s.v % 5 = 0 /\ MultipleOfPow5(s.v, q),
              atz |-> five /\ s.v % 5 # 0 /\ acceptBounds /\ MultipleOfPow5(s.u, q),
              ctz |-> five /\ s.v % 5 # 0 /\ ~acceptBounds /\ MultipleOfPow5(s.w, q)]
    ELSE LET q_prime == FloorLog10Pow5(0 - s.e2)
             q == Max(0, q_prime - 1)
         IN  [q_prime |-> q_prime, q |-> q, e10 |-> q + s.e2,
              btz |-> IF q <= 1 THEN TRUE
                      ELSE IF q <= 53 + 2 THEN MultipleOfPow2(s.v, q - 1) ELSE FALSE,
              atz |-> q <= 1 /\ acceptBounds /\ (~lowerBoundaryIsCloser \/ q = 0),
              ctz |-> q <= 1 /\ ~acceptBounds]

\* while a / 10 < c / 10, with the trailing-zero flags (atz or btz)
RyuRemoveDigitsGuard(t) == t.a \div 10 < t.c \div 10

\* The iteration without 'atz &= a % 10 == 0'.
RyuRemoveDigitsBodyKeepFlag(t) ==
    [a |-> t.a \div 10, b |-> t.b \div 10, c |-> t.c \div 10,
     e10 |-> t.e10 + 1,
     atz |-> t.atz,
     btz |-> t.btz /\ t.bi = 0,
     bi |-> t.b % 10,
     steps |-> Append(t.steps, [a |-> t.a \div 10, c |-> t.c \div 10])]

\* One iteration of the loop.
RyuRemoveDigitsBody(t) ==
    [a |-> t.a \div 10, b |-> t.b \div 10, c |-> t.c \div 10,
     e10 |-> t.e10 + 1,
     atz |-> t.atz /\ t.a % 10 = 0,
     btz |-> t.btz /\ t.bi = 0,
     bi |-> t.b % 10,
     steps |-> Append(t.steps, [a |-> t.a \div 10, c |-> t.c \div 10])]

RECURSIVE RyuRemoveDigits(_)
RyuRemoveDigits(t) ==
    IF RyuRemoveDigitsGuard(t) THEN RyuRemoveDigits(RyuRemoveDigitsBody(t)) ELSE t

\* while a % 10 == 0
RyuRemoveZerosGuard(t) == t.a % 10 = 0

\* One iteration of the loop.
RyuRemoveZerosBody(t) ==
    [a |-> t.a \div 10, b |-> t.b \div 10, c |-> t.c \div 10,
     e10 |-> t.e10 + 1,
     atz |-> t.atz,
     btz |-> t.btz /\ t.bi = 0,
     bi |-> t.b % 10,
     steps |-> Append(t.steps, [a |-> t.a \div 10, c |-> t.c \div 10])]

RECURSIVE RyuRemoveZeros(_)
RyuRemoveZeros(t) ==
    IF RyuRemoveZerosGuard(t) THEN RyuRemoveZeros(RyuRemoveZerosBody(t)) ELSE t

\* roundDown = bi < 5 or (bi == 5 and btz and b % 2 == 0)
\* A rounding of the last digit that rounds every 5 down.
RyuRoundDownOnFive(bi, btz, b) == bi <= 5
RyuRoundDown(bi, btz, b) == bi < 5 \/ (bi = 5 /\ btz /\ b % 2 = 0)

\* The loop of the common case: roundDown = (b % 10 < 5) per removed digit
RyuRemoveDigitsFastGuard(t) == t.a \div 10 < t.c \div 10

\* One iteration of the loop.
RyuRemoveDigitsFastBody(t) ==
    [a |-> t.a \div 10, b |-> t.b \div 10, c |-> t.c \div 10,
     e10 |-> t.e10 + 1,
     roundDown |-> t.b % 10 < 5,
     steps |-> Append(t.steps, [a |-> t.a \div 10, c |-> t.c \div 10])]

RECURSIVE RyuRemoveDigitsFast(_)
RyuRemoveDigitsFast(t) ==
    IF RyuRemoveDigitsFastGuard(t) THEN RyuRemoveDigitsFast(RyuRemoveDigitsFastBody(t)) ELSE t

\* if (not roundDown and b < c) or (a == b and not atz): b += 1
RyuIncrement(a, b, c, atz, roundDown) ==
    (~roundDown /\ b < c) \/ (a = b /\ ~atz)

\* The index at which DtoaRyu(m2, e2) reads CachedPow5.
RyuTableIndex(m2, e2) ==
    LET s == RyuBounds(m2, e2)
        g == RyuFlags(s, m2 % 2 = 0, RyuLowerBoundaryIsCloser(m2, e2))
    IN  (0 - g.e10) - CachedPow5MinDecExp

\* DtoaRyu up to its loops: Steps 2 and 3, the conversion, if ctz: c -= 1,
\* and the record t the loop starts from; general says which loop it is.
RyuStart(m2, e2) ==
    LET acceptBounds == (m2 % 2 = 0)
        lbc == RyuLowerBoundaryIsCloser(m2, e2)
        s   == RyuBounds(m2, e2)
        g   == RyuFlags(s, acceptBounds, lbc)
        m   == MulPow5DivPow2(s.u, s.v, s.w, 0 - g.e10, g.e10 - s.e2)
        c0  == IF g.ctz THEN m.c - 1 ELSE m.c
        ok  == /\ m.asserts
               /\ m.a < m.c - 1
               /\ (g.q_prime = 0 \/ m.a \div 10 < c0 \div 10)
    IN  [general |-> g.atz \/ g.btz, atz |-> g.atz, ok |-> ok,
         a |-> m.a, b |-> m.b, c |-> m.c,
         t |-> IF g.atz \/ g.btz
               THEN [a |-> m.a, b |-> m.b, c |-> c0, e10 |-> g.e10,
                     atz |-> g.atz, btz |-> g.btz, bi |-> 0,
                     steps |-> <<>>]
               ELSE [a |-> m.a, b |-> m.b, c |-> c0, e10 |-> g.e10,
                     roundDown |-> TRUE, steps |-> <<>>]]

\* The return after the loops of the general case, which left t2.
RyuGeneralReturn(st, t2, roundDown) ==
    [d |-> IF RyuIncrement(t2.a, t2.b, t2.c, t2.atz, roundDown)
           THEN t2.b + 1 ELSE t2.b,
     k |-> t2.e10, asserts |-> st.ok,
     a |-> st.a, b |-> st.b, c |-> st.c, steps |-> t2.steps]

\* The return after the loop of the common case, which left t.
RyuFastReturn(st, t) ==
    [d |-> IF RyuIncrement(t.a, t.b, t.c, st.atz, t.roundDown)
           THEN t.b + 1 ELSE t.b,
     k |-> t.e10, asserts |-> st.ok,
     a |-> st.a, b |-> st.b, c |-> st.c, steps |-> t.steps]

\* The loops of the general case from t1, what the first loop left.
RyuGeneralZeros(st, t2) ==
    RyuGeneralReturn(st, t2, RyuRoundDown(t2.bi, t2.btz, t2.b))

RyuGeneralLoops(st, t1) ==
    RyuGeneralZeros(st, IF t1.atz THEN RyuRemoveZeros(t1) ELSE t1)

RyuLoops(st) ==
    IF st.general
    THEN RyuGeneralLoops(st, RyuRemoveDigits(st.t))
    ELSE RyuFastReturn(st, RyuRemoveDigitsFast(st.t))

DtoaRyu(m2, e2) == RyuLoops(RyuStart(m2, e2))

---------------------------------------------------------------------------
(* Power tables (dtoa/dtoa_ryu.py, powers.py, ryu/compute_powers.py,       *)
(* grisu/compute_powers.py)                                                *)

\* The closing assertions of every generator:
\* assert f >= 2**(bits - 1); assert f < 2**bits
Normalized(f, bits) == f >= 2^(bits - 1) /\ f < 2^bits

\* dtoa_ryu.py: ComputePow5 with its exponent and its assertions.  The
\* assertions of FloorLog2Pow5 on k hold for every k of the model.
ComputePow5Entry(k, bits) ==
    LET f == ComputePow5(k, bits)
    IN  [f |-> f, e |-> FloorLog2Pow5(k) + 1 - bits,
         asserts |-> bits > 0 /\ Normalized(f, bits)]

\* powers.py: (e * 1217359) // 2**19
PowersFloorLog2Pow5(e) == (e * 1217359) \div 2^19

\* powers.py: ComputeRyuPower(k, bits)
PowersComputeRyuPower(k, bits) ==
    LET e == PowersFloorLog2Pow5(k) + 1 - bits
        f == IF k >= 0
             THEN (IF e > 0 THEN 5^k \div 2^e ELSE 5^k * 2^(0 - e))
             ELSE Ceil(2^(0 - e), 5^(0 - k))
    IN  [f |-> f, e |-> e, asserts |-> bits > 0 /\ Normalized(f, bits)]

\* ryu/compute_powers.py: ComputeRyuPower(k, bits), in which
\* f = Ceil(5**k, 2**e) has replaced f = 5**k // 2**e.
ComputeRyuPower(k, bits) ==
    LET e == FloorLog2Pow5(k) + 1 - bits
        f == IF k >= 0
             THEN (IF e > 0 THEN Ceil(5^k, 2^e) ELSE 5^k * 2^(0 - e))
             ELSE Ceil(2^(0 - e), 5^(0 - k))
    IN  [f |-> f, e |-> e, asserts |-> bits > 0 /\ Normalized(f, bits)]

\* (e * 1741647) // 2**19
FloorLog2Pow10(e) == (e * 1741647) \div 2^19

\* RoundUp(num, den) of the Grisu generator: p, r = divmod(num, den);
\* if 2 * r >= den: p += 1
GrisuRoundUp(num, den) ==
    IF 2 * (num % den) >= den THEN num \div den + 1 ELSE num \div den

\* powers.py and grisu/compute_powers.py: ComputeGrisuPower(k, bits)
ComputeGrisuPower(k, bits) ==
    LET e == FloorLog2Pow10(k) + 1 - bits
        f == IF k >= 0
             THEN (IF e > 0 THEN GrisuRoundUp(10^k, 2^e) ELSE 10^k * 2^(0 - e))
             ELSE GrisuRoundUp(2^(0 - e), 10^(0 - k))
    IN  [f |-> f, e |-> e, asserts |-> bits > 0 /\ Normalized(f, bits)]

---------------------------------------------------------------------------
(* The state machine: one conversion job per behaviour                     *)

\* Finite nonzero floats in canonical form.
CanonicalFloats ==
    {fe \in [f : 1 .. 2^PRECISION - 1, e : MIN_EXPONENT .. MAX_EXPONENT] :
        fe.f >= HIDDEN_BIT \/ fe.e = MIN_EXPONENT}

\* (2^PRECISION - 1/2) * 2^MAX_EXPONENT: halfway between the largest finite
\* float and the next power of two (baseconv.py, lines 363-378).
OverflowHalf == (2^(PRECISION + 1) - 1) * 2^(MAX_EXPONENT - 1)

DecimalInputs ==
    [d : 1 .. MaxDecimal, k : (0 - MaxNegDecExp) .. MaxPosDecExp]
    \cup [d : (OverflowHalf - 1) .. (OverflowHalf + 1), k : {0}]
    \cup [d : {0}, k : (0 - MaxNegDecExp) .. MaxPosDecExp]

\* PRECISION and EXPONENT_BITS as baseconv.py sets them, and the exponent
\* range they give.
DoublePrecision == 53
DoubleExponentBits == 11
DoubleBias == 2^(DoubleExponentBits - 1) - 1 + (DoublePrecision - 1)
DoubleMinExponent == 1 - DoubleBias
DoubleMaxExponent == 2^DoubleExponentBits - 2 - DoubleBias

\* The zero of the integers of that format, kept as sequences of limbs.
NoBig == <<0>>

\* No exponents of Step 3 of DtoaRyu.
NoExponents ==
    [e2 |-> 0, q_prime |-> 0, q |-> 0, e10 |-> 0, e5 |-> 0, k |-> 0, j |-> 0,
     logInRange |-> TRUE, e5InRange |-> TRUE, pow5LogInRange |-> TRUE,
     jNonNegative |-> TRUE]

\* No run of Dtoa at PRECISION = 53.
DoubleIdle ==
    [pc |-> "idle", inp |-> [m |-> NoBig, e |-> 0],
     num |-> NoBig, den |-> NoBig, lim |-> NoBig,
     e |-> 0, p |-> DoublePrecision,
     f |-> NoBig, isExact |-> TRUE,
     r |-> NoBig, s |-> NoBig, mp |-> NoBig, mm |-> NoBig,
     k |-> 0, d |-> <<>>]

\* No run of DtoaRyu at PRECISION = 53.
RyuIdle ==
    [pc |-> "idle", u |-> NoBig, v |-> NoBig, w |-> NoBig, x |-> NoExponents,
     atz |-> FALSE, btz |-> FALSE, ctz |-> FALSE,
     pow5 |-> NoBig, a |-> NoBig, b |-> NoBig, c |-> NoBig,
     e10 |-> 0, bi |-> 0, roundDown |-> TRUE, d |-> NoBig]

\* No loop is followed.
NoRun == [pc |-> "idle", n |-> 0, accept |-> FALSE, t |-> <<>>]

\* No call of a helper function, and nothing returned.
NoCall == [fn |-> "none", args |-> <<>>]
NoReturn == [fn |-> "none"]

NoBinary == [f |-> 0, e |-> 0, p |-> 0, isExact |-> FALSE, q |-> 0, asserts |-> TRUE]
NoScale == [r |-> 0, s |-> 0, mp |-> 0, k |-> 0, k0 |-> 0, asserts |-> TRUE]
NoDecimal == [d |-> 0, k |-> 0, digits |-> <<>>, asserts |-> TRUE,
              scale |-> NoScale, steps |-> <<>>]
NoResult == [d |-> 0, k |-> 0, asserts |-> TRUE,
             a |-> 0, b |-> 0, c |-> 0, steps |-> <<>>]
NoPower == [f |-> 0, e |-> 0, asserts |-> TRUE]
NoPowers == [pow5 |-> NoPower, ryu |-> NoPower, ryuChunks |-> NoPower,
             grisu |-> NoPower]

\* The arguments of the power generators.
PowerInputs == [k : (0 - MaxPowK) .. MaxPowK, bits : 1 .. MaxPowBits]

Init ==
    /\ mode \in {"format", "roundtrip", "parse", "power"}
    /\ IF mode \in {"format", "roundtrip"}
       THEN flt \in CanonicalFloats /\ dec = [d |-> 1, k |-> 0]
       ELSE IF mode = "parse"
       THEN dec \in DecimalInputs /\ flt = [f |-> 1, e |-> 0]
       ELSE dec = [d |-> 1, k |-> 0] /\ flt = [f |-> 1, e |-> 0]
    /\ IF mode = "power"
       THEN pw \in PowerInputs
       ELSE pw = [k |-> 0, bits |-> 1]
    /\ powers = NoPowers
    /\ logExp = 0
    /\ pow2 = <<1>>
    /\ prevDigits = 1
    /\ done = {}
    /\ src = NoBinary
    /\ bd = NoDecimal
    /\ ryu = NoResult
    /\ adams = NoResult
    /\ back = NoBinary
    /\ again = NoDecimal
    /\ bin = NoBinary
    /\ table = CachedPow5Initial
    /\ dbl = DoubleIdle
    /\ dryu = RyuIdle
    /\ call = NoCall
    /\ ret = NoReturn
    /\ run = NoRun

\* BinaryFromDecimal on the decimal input.  A call that raises
\* AssertionError binds no result and is recorded as "failed".
Parse ==
    /\ mode = "parse"
    /\ "bin" \notin done
    /\ "failed" \notin done
    /\ LET b == BinaryFromDecimal(dec.d, dec.k)
       IN  IF b.asserts
           THEN bin' = b /\ done' = done \cup {"bin"}
           ELSE bin' = bin /\ done' = done \cup {"failed"}
    /\ UNCHANGED powerVars
    /\ UNCHANGED logVars
    /\ UNCHANGED <<dbl, dryu>>
    /\ UNCHANGED toolVars
    /\ UNCHANGED <<table, mode, flt, dec, src, bd, ryu, adams, back, again>>

\* DtoaPow2 / Dtoa, first half: f, e, p, isExact = BinaryFromFraction(num, den)
Load ==
    /\ mode \in {"format", "roundtrip"}
    /\ "src" \notin done
    /\ src' = DtoaPow2Fraction(flt.e, flt.f)
    /\ done' = done \cup {"src"}
    /\ UNCHANGED powerVars
    /\ UNCHANGED logVars
    /\ UNCHANGED <<dbl, dryu>>
    /\ UNCHANGED toolVars
    /\ UNCHANGED <<table, mode, flt, dec, bd, ryu, adams, back, again, bin>>

\* DtoaPow2 / Dtoa, second half: ShortestDecimalStringFromBinary(f, e, p)
FormatBurgerDybvig ==
    /\ "src" \in done
    /\ "bd" \notin done
    /\ bd' = ShortestDecimalFromBinary(src.f, src.e, src.p)
    /\ done' = done \cup {"bd"}
    /\ UNCHANGED powerVars
    /\ UNCHANGED logVars
    /\ UNCHANGED <<dbl, dryu>>
    /\ UNCHANGED toolVars
    /\ UNCHANGED <<table, mode, flt, dec, src, ryu, adams, back, again, bin>>

\* dtoa_ryu.py on the same float.
FormatRyu ==
    /\ mode = "format"
    /\ "src" \in done
    /\ "ryu" \notin done
    /\ ryu' = DtoaRyu(src.f, src.e)
    /\ table' = CachedPow5AfterRead(table, RyuTableIndex(src.f, src.e))
    /\ done' = done \cup {"ryu"}
    /\ UNCHANGED powerVars
    /\ UNCHANGED logVars
    /\ UNCHANGED <<dbl, dryu>>
    /\ UNCHANGED toolVars
    /\ UNCHANGED <<mode, flt, dec, src, bd, adams, back, again, bin>>

\* dtoa_adams.py on the same float.
FormatAdams ==
    /\ mode = "format"
    /\ "src" \in done
    /\ "adams" \notin done
    /\ adams' = DtoaAdams(src.f, src.e)
    /\ done' = done \cup {"adams"}
    /\ UNCHANGED powerVars
    /\ UNCHANGED logVars
    /\ UNCHANGED <<dbl, dryu>>
    /\ UNCHANGED toolVars
    /\ UNCHANGED <<table, mode, flt, dec, src, bd, ryu, back, again, bin>>

\* The commented round-trip test: BinaryFromDecimalString(d + 'e' + str(k))
Reparse ==
    /\ mode = "roundtrip"
    /\ "bd" \in done
    /\ "back" \notin done
    /\ back' = BinaryFromDecimal(bd.d, bd.k)
    /\ done' = done \cup {"back"}
    /\ UNCHANGED powerVars
    /\ UNCHANGED logVars
    /\ UNCHANGED <<dbl, dryu>>
    /\ UNCHANGED toolVars
    /\ UNCHANGED <<table, mode, flt, dec, src, bd, ryu, adams, again, bin>>

\* Printing the parsed result again.
Reprint ==
    /\ "back" \in done
    /\ "again" \notin done
    /\ again' = ShortestDecimalFromBinary(back.f, back.e, back.p)
    /\ done' = done \cup {"again"}
    /\ UNCHANGED powerVars
    /\ UNCHANGED logVars
    /\ UNCHANGED <<dbl, dryu>>
    /\ UNCHANGED toolVars
    /\ UNCHANGED <<table, mode, flt, dec, src, bd, ryu, adams, back, bin>>

\* One table entry from each generator: ComputePow5 (dtoa_ryu.py),
\* ComputeRyuPower (powers.py), ComputeRyuPower (ryu/compute_powers.py) and
\* ComputeGrisuPower, as PrintRyuPowers and PrintGrisuPowers call them.
ComputePowers ==
    /\ mode = "power"
    /\ "powers" \notin done
    /\ powers' = [pow5 |-> ComputePow5Entry(pw.k, pw.bits),
                  ryu |-> PowersComputeRyuPower(pw.k, pw.bits),
                  ryuChunks |-> ComputeRyuPower(pw.k, pw.bits),
                  grisu |-> ComputeGrisuPower(pw.k, pw.bits)]
    /\ done' = done \cup {"powers"}
    /\ UNCHANGED logVars
    /\ UNCHANGED <<dbl, dryu>>
    /\ UNCHANGED toolVars
    /\ UNCHANGED <<pw, table, mode, flt, dec, src, bd, ryu, adams, back,
                   again, bin>>

Next ==
    \/ ComputePowers
    \/ Parse
    \/ Load
    \/ FormatBurgerDybvig
    \/ FormatRyu
    \/ FormatAdams
    \/ Reparse
    \/ Reprint

Spec == Init /\ [][Next]_vars

---------------------------------------------------------------------------
(* Exact comparisons of a decimal d * 10^k with a binary X * 2^E            *)

\* The number of decimal digits of d >= 1.
RECURSIVE NumDigits(_)
NumDigits(d) == IF d < 10 THEN 1 ELSE 1 + NumDigits(d \div 10)

FloorDiv(a, b) == a \div b
CeilDiv(a, b) == IF a % b = 0 THEN a \div b ELSE a \div b + 1

\* d * 10^k and X * 2^E as a / b and Y: a / b = d * 10^k * 2^n and
\* Y = X * 2^E * 2^n, with n = max(-E, 0) and b = 10^max(-k, 0).
DecNum(d, k, E) == d * 10^Max(k, 0) * 2^Max(0 - E, 0)
DecDen(k) == 10^Max(0 - k, 0)
BinInt(X, E) == X * 2^Max(E, 0)

\* d * 10^k <= X * 2^E, and the other three comparisons.  An integer
\* d * 10^k is compared with the integer part of X * 2^E, any other with
\* the integer X * 2^E * 2^n.
DecLeqBin(d, k, X, E) ==
    IF k >= 0 /\ E < 0
    THEN d * 10^k <= FloorDiv(X, 2^(0 - E))
    ELSE CeilDiv(DecNum(d, k, E), DecDen(k)) <= BinInt(X, E)
DecGeqBin(d, k, X, E) ==
    IF k >= 0 /\ E < 0
    THEN d * 10^k >= CeilDiv(X, 2^(0 - E))
    ELSE FloorDiv(DecNum(d, k, E), DecDen(k)) >= BinInt(X, E)
DecLessBin(d, k, X, E) == ~DecGeqBin(d, k, X, E)
DecGreaterBin(d, k, X, E) == ~DecLeqBin(d, k, X, E)

\* The reals that round to f * 2^e lie between the midpoints to f's two
\* neighbours: (4f - 2) * 2^(e-2), or (4f - 1) * 2^(e-2) when the lower
\* neighbour is in the binade below, and (4f + 2) * 2^(e-2).
LowerMidpoint(f, e) ==
    IF f = 2^(PRECISION - 1) /\ e > MIN_EXPONENT THEN 4 * f - 1 ELSE 4 * f - 2
UpperMidpoint(f) == 4 * f + 2

\* d * 10^k is in the rounding interval of f * 2^e: the midpoints belong to
\* it exactly when f is even.
InRoundingInterval(d, k, f, e) ==
    IF f % 2 = 0
    THEN /\ DecGeqBin(d, k, LowerMidpoint(f, e), e - 2)
         /\ DecLeqBin(d, k, UpperMidpoint(f), e - 2)
    ELSE /\ DecGreaterBin(d, k, LowerMidpoint(f, e), e - 2)
         /\ DecLessBin(d, k, UpperMidpoint(f), e - 2)

\* d * 10^k is one of the two midpoints of f * 2^e.
IsMidpoint(d, k, f, e) ==
    \/ (DecGeqBin(d, k, LowerMidpoint(f, e), e - 2)
        /\ DecLeqBin(d, k, LowerMidpoint(f, e), e - 2))
    \/ (DecGeqBin(d, k, UpperMidpoint(f), e - 2)
        /\ DecLeqBin(d, k, UpperMidpoint(f), e - 2))

\* (f, e) is a value of the format: normal, or subnormal at MIN_EXPONENT.
Representable(f, e) ==
    /\ f > 0
    /\ f < 2^PRECISION
    /\ e >= MIN_EXPONENT
    /\ e <= MAX_EXPONENT
    /\ (f >= 2^(PRECISION - 1) \/ e = MIN_EXPONENT)

\* BinaryFromDecimal on every decimal d * 10^k of the inputs, computed once.
Parsed ==
    [d \in 1..MaxDecimal |->
        [k \in (0 - MaxNegDecExp)..MaxPosDecExp |-> BinaryFromDecimal(d, k)]]

---------------------------------------------------------------------------
(* Claims                                                                  *)

\* C1: round trip.  Parsing the decimal printed for a canonical float
\* (f, e, p), p the bit length of f, returns the same f, e and p.
C1_RoundTrip ==
    "back" \in done =>
        /\ back.f = flt.f
        /\ back.e = flt.e
        /\ back.p = EffectivePrecision(flt.f)

\* The decimal inputs with fewer than n digits.
Shorter(n) ==
    [d : 1..Min(10^(n - 1) - 1, MaxDecimal),
     k : (0 - MaxNegDecExp)..MaxPosDecExp]

\* C2: shortest.  No decimal with fewer digits than the sequence
\* BurgerDybvig returns is converted back to (f, e) by BinaryFromDecimal, and
\* the sequence has no trailing zero.
C2_Shortest ==
    "bd" \in done =>
        /\ \A c \in Shorter(Len(bd.digits)) :
              ~(Parsed[c.d][c.k].f = flt.f /\ Parsed[c.d][c.k].e = flt.e)
        /\ bd.digits[Len(bd.digits)] # 0

\* C2 witness: a three-digit output, for which a shorter decimal with one or
\* two digits parses to a neighbour of the float.
C2_Witness ==
    /\ "bd" \in done
    /\ Len(bd.digits) = 3
    /\ \E c \in Shorter(3) :
          /\ NumDigits(c.d) = 2
          /\ Parsed[c.d][c.k].e = flt.e
          /\ Parsed[c.d][c.k].f = flt.f + 1

\* C10: idempotence.  Printing, parsing and printing again yields the same
\* digit sequence and the same decimal exponent as the first print.
C10_Idempotent ==
    "again" \in done => again.digits = bd.digits /\ again.k = bd.k

\* C10 witness: a subnormal float has been printed, parsed and printed again.
C10_Witness ==
    /\ "again" \in done
    /\ flt.e = MIN_EXPONENT
    /\ flt.f < 2^(PRECISION - 1)
    /\ Len(again.digits) >= 2

\* d * 10^k >= 2^MIN_EXPONENT, the smallest positive value of the format.
AtLeastMin(d, k) == DecGeqBin(d, k, 1, MIN_EXPONENT)

\* d * 10^k < (2^PRECISION - 1/2) * 2^MAX_EXPONENT, halfway between the
\* largest finite value and the next power of two.
BelowOverflow(d, k) ==
    DecLessBin(d, k, 2^(PRECISION + 1) - 1, MAX_EXPONENT - 1)

\* d * 10^k >= (2^PRECISION - 1) * 2^MAX_EXPONENT, the largest finite value.
AtLeastMaxFinite(d, k) == DecGeqBin(d, k, 2^PRECISION - 1, MAX_EXPONENT)

\* f * 2^e = d * 10^k.
SameValue(f, e, d, k) ==
    f * 2^Max(e, 0) * 10^Max(0 - k, 0) = d * 10^Max(k, 0) * 2^Max(0 - e, 0)

\* (f, e) is a representable value nearest to d * 10^k, the even one of two
\* equally near.
NearestEven(f, e, d, k) ==
    /\ Representable(f, e)
    /\ InRoundingInterval(d, k, f, e)

\* C3 as stated: for every d > 0 and every k, BinaryFromDecimal(d, k)
\* returns the representable value nearest to d * 10^k, ties to even f.
C3_Nearest ==
    "bin" \in done => NearestEven(bin.f, bin.e, dec.d, dec.k)

\* C3 amended: the same, for 2^MIN_EXPONENT <= d * 10^k below the overflow
\* threshold (2^PRECISION - 1/2) * 2^MAX_EXPONENT.
C3_NearestInRange ==
    "bin" \in done /\ AtLeastMin(dec.d, dec.k) /\ BelowOverflow(dec.d, dec.k)
        => NearestEven(bin.f, bin.e, dec.d, dec.k)

\* C3 witness: an input halfway between two neighbouring floats has been
\* converted, and the even significand was chosen.
C3_Witness ==
    /\ "bin" \in done
    /\ AtLeastMin(dec.d, dec.k)
    /\ BelowOverflow(dec.d, dec.k)
    /\ IsMidpoint(dec.d, dec.k, bin.f, bin.e)
    /\ bin.f % 2 = 0
    /\ bin.f = bin.q + 1

\* C6: overflow.  The returned exponent exceeds MAX_EXPONENT exactly when
\* the input is at or above (2^PRECISION - 1/2) * 2^MAX_EXPONENT, and every
\* input from the largest finite value up to that threshold returns the
\* largest finite value.
C6_Overflow ==
    "bin" \in done =>
        /\ bin.e > MAX_EXPONENT <=> ~BelowOverflow(dec.d, dec.k)
        /\ (AtLeastMaxFinite(dec.d, dec.k) /\ BelowOverflow(dec.d, dec.k)
              => bin.f = 2^PRECISION - 1 /\ bin.e = MAX_EXPONENT)

\* C6 witness: the input exactly at the threshold has been converted and
\* the exponent exceeds MAX_EXPONENT.
C6_Witness ==
    /\ "bin" \in done
    /\ dec.k = 0
    /\ dec.d = OverflowHalf
    /\ bin.e = MAX_EXPONENT + 1
    /\ bin.f = 2^(PRECISION - 1)

\* C7: underflow.  The returned exponent is below MIN_EXPONENT exactly when
\* the positive input is below 2^MIN_EXPONENT.
C7_Underflow ==
    "bin" \in done => (bin.e < MIN_EXPONENT <=> ~AtLeastMin(dec.d, dec.k))

\* C7 witness: an input below 2^MIN_EXPONENT has been converted, with the
\* precision reduced to one bit.
C7_Witness ==
    /\ "bin" \in done
    /\ ~AtLeastMin(dec.d, dec.k)
    /\ bin.e < MIN_EXPONENT
    /\ bin.p = 1

\* f1 * 2^e1 = f2 * 2^e2.
SameBinary(f1, e1, f2, e2) ==
    f1 * 2^(e1 - Min(e1, e2)) = f2 * 2^(e2 - Min(e1, e2))

C9_Normalized ==
    "bin" \in done =>
        /\ 2^(bin.p - 1) <= bin.f
        /\ bin.f < 2^bin.p
        /\ (bin.p < PRECISION => bin.e = MIN_EXPONENT \/ bin.p = 1)
        /\ bin.p <= PRECISION

\* C4: the decimal returned by each printer lies in the rounding interval
\* of (f, e); the midpoints belong to the interval only when f is even, and
\* the lower midpoint is nearer when f is a power of two above MIN_EXPONENT.
C4_InInterval ==
    /\ "bd" \in done => InRoundingInterval(bd.d, bd.k, flt.f, flt.e)
    /\ "ryu" \in done => InRoundingInterval(ryu.d, ryu.k, flt.f, flt.e)
    /\ "adams" \in done => InRoundingInterval(adams.d, adams.k, flt.f, flt.e)

\* C4 witness: all three printers have returned a midpoint of an even f.
C4_Witness ==
    /\ {"bd", "ryu", "adams"} \subseteq done
    /\ flt.f % 2 = 0
    /\ IsMidpoint(bd.d, bd.k, flt.f, flt.e)
    /\ IsMidpoint(ryu.d, ryu.k, flt.f, flt.e)
    /\ IsMidpoint(adams.d, adams.k, flt.f, flt.e)

\* The distance of d * 10^k from f * 2^e, times 10^-km * 2^max(-e, 0), for
\* km <= min(k, 0).
Distance(d, k, f, e, km) ==
    LET c == d * 10^(k - km) * 2^Max(0 - e, 0)
        v == f * 2^Max(e, 0) * 10^(0 - km)
    IN  IF c >= v THEN c - v ELSE v - c

\* The decimals with as many digits as d that lie in the rounding interval
\* of (f, e).  One of them is within a factor 10 of d * 10^k, as the interval
\* is narrower than that.
Candidates(d, k, f, e) ==
    LET n == NumDigits(d)
    IN  {c \in [d : 10^(n - 1)..(10^n - 1), k : (k - 1)..(k + 1)] :
            InRoundingInterval(c.d, c.k, f, e)}

\* No decimal with fewer digits than d lies in the rounding interval of
\* (f, e).  Such a decimal would have an exponent from k - 1 to k + n.
MinimalLength(d, k, f, e) ==
    LET n == NumDigits(d)
    IN  \A c \in [d : 1..(10^(n - 1) - 1), k : (k - 1)..(k + n)] :
            ~InRoundingInterval(c.d, c.k, f, e)

\* (d, k) has the minimal length, is at least as close to (f, e) as every
\* candidate, and has an even last digit when a candidate of another value
\* is equally close.
ClosestEven(d, k, f, e) ==
    /\ MinimalLength(d, k, f, e)
    /\ \A c \in Candidates(d, k, f, e) :
          LET km == Min(Min(c.k, k), 0)
              mine == Distance(d, k, f, e, km)
              other == Distance(c.d, c.k, f, e, km)
          IN  /\ mine <= other
              /\ (mine = other /\ d * 10^(k - km) # c.d * 10^(c.k - km)
                    => d % 2 = 0)

\* C5: among the decimals of minimal length in the rounding interval, the
\* printer returns the one closest to f * 2^e, and of two equally close the
\* one whose last digit is even.
C5_Closest ==
    /\ "bd" \in done => ClosestEven(bd.d, bd.k, flt.f, flt.e)
    /\ "ryu" \in done => ClosestEven(ryu.d, ryu.k, flt.f, flt.e)
    /\ "adams" \in done => ClosestEven(adams.d, adams.k, flt.f, flt.e)

\* C5 witness: the printers had two equally close candidates to choose from.
C5_Witness ==
    /\ {"bd", "ryu", "adams"} \subseteq done
    /\ bd.d = ryu.d /\ bd.k = ryu.k /\ bd.d = adams.d /\ bd.k = adams.k
    /\ \E c \in Candidates(bd.d, bd.k, flt.f, flt.e) :
          LET km == Min(Min(c.k, bd.k), 0)
          IN  /\ c.d * 10^(c.k - km) # bd.d * 10^(bd.k - km)
              /\ Distance(c.d, c.k, flt.f, flt.e, km)
                   = Distance(bd.d, bd.k, flt.f, flt.e, km)

\* C19: the three printers are interchangeable: DtoaRyu, DtoaAdams and
\* DtoaBurgerDybvig return the same decimal significand and the same decimal
\* exponent for every canonical float.
C19_Interchangeable ==
    /\ {"bd", "ryu"} \subseteq done => ryu.d = bd.d /\ ryu.k = bd.k
    /\ {"bd", "adams"} \subseteq done => adams.d = bd.d /\ adams.k = bd.k
    /\ {"ryu", "adams"} \subseteq done => adams.d = ryu.d /\ adams.k = ryu.k

\* C19 witness: the three printers have returned the same three digits for
\* a power of two, whose lower boundary is closer.
C19_Witness ==
    /\ {"bd", "ryu", "adams"} \subseteq done
    /\ flt.f = HIDDEN_BIT
    /\ flt.e > MIN_EXPONENT
    /\ adams.d = bd.d /\ ryu.d = bd.d
    /\ adams.k = bd.k /\ ryu.k = bd.k
    /\ Len(bd.digits) = 3

\* delta = 1 exactly when f = 2^(PRECISION-1) and e > MIN_EXPONENT.
Delta(f, e) == IF f = 2^(PRECISION - 1) /\ e > MIN_EXPONENT THEN 1 ELSE 0

\* The printers' interval bounds are u, v, w at exponent e - 2: DtoaRyu and
\* DtoaAdams compute u, v, w and e2, BurgerDybvig the fractions
\* (r - mm) / s, r / s and (r + mp) / s, which equal u, v, w times 2^(e-2).
BoundsAre(f, e, u, v, w) ==
    LET i == BurgerDybvigInit(f, e)
        up == 2^Max(e, 0)
        dn == 2^Max(0 - e, 0)
    IN  /\ RyuBounds(f, e) = [u |-> u, v |-> v, w |-> w, e2 |-> e - 2]
        /\ AdamsBounds(f, e) = [u |-> u, v |-> v, w |-> w, e2 |-> e - 2]
        /\ 4 * (i.r - i.mm) * dn = u * i.s * up
        /\ 4 * i.r * dn = v * i.s * up
        /\ 4 * (i.r + i.mp) * dn = w * i.s * up

\* C20 as stated: u = 4f - 2 - delta, v = 4f, w = 4f + 2 at exponent e - 2.
C20_BoundsMinusDelta ==
    {"bd", "ryu", "adams"} \subseteq done =>
        BoundsAre(flt.f, flt.e,
                  4 * flt.f - 2 - Delta(flt.f, flt.e), 4 * flt.f, 4 * flt.f + 2)

\* C20 amended: u = 4f - 2 + delta, v = 4f, w = 4f + 2 at exponent e - 2:
\* the lower bound moves toward v when the lower boundary is closer.
C20_BoundsPlusDelta ==
    {"bd", "ryu", "adams"} \subseteq done =>
        BoundsAre(flt.f, flt.e,
                  4 * flt.f - 2 + Delta(flt.f, flt.e), 4 * flt.f, 4 * flt.f + 2)

\* C20 witness: the printers have run on a power of two above MIN_EXPONENT,
\* where delta = 1.
C20_Witness ==
    /\ {"bd", "ryu", "adams"} \subseteq done
    /\ Delta(flt.f, flt.e) = 1
    /\ RyuBounds(flt.f, flt.e).u = 4 * flt.f - 1
    /\ ryu.d = bd.d

\* C18 as stated: BinaryFromDecimal accepts every nonnegative d, including
\* d = 0, with any k, and returns without failing an assertion.
C18_AcceptsNonnegative == "failed" \notin done

\* C18 amended: BinaryFromDecimal accepts every positive d with any k and
\* returns a result with every assertion satisfied; with d = 0 it fails the
\* assertion num != 0 and returns nothing.
C18_AcceptsPositive ==
    mode = "parse" /\ done # {} =>
        /\ dec.d > 0 => "bin" \in done /\ bin.asserts /\ bin.f > 0
        /\ dec.d = 0 => "failed" \in done /\ bin = NoBinary

\* C18 witness: a positive decimal below the smallest subnormal has been
\* parsed at precision 1, with every assertion satisfied.
C18_Witness ==
    /\ "bin" \in done
    /\ dec.d > 0
    /\ bin.e < MIN_EXPONENT
    /\ bin.p = 1
    /\ bin.asserts

C13_Normalized ==
    /\ "powers" \in done =>
        /\ powers.pow5.asserts
        /\ powers.ryu.asserts
        /\ powers.ryuChunks.asserts
        /\ powers.grisu.asserts
    /\ \A i \in DOMAIN table : Normalized(table[i], CachedPow5Bits)

\* The stored significand of the rule of C14: floor for k >= 0 and e > 0,
\* the exact product for k >= 0 and e <= 0, ceiling for k < 0.
RuleSignificand(k, e) ==
    IF k >= 0
    THEN (IF e > 0 THEN FloorDiv(5^k, 2^e) ELSE 5^k * 2^(0 - e))
    ELSE CeilDiv(2^(0 - e), 5^(0 - k))

\* C14: the three Ryu generators store floor(5^k / 2^e) for k >= 0, e > 0,
\* 5^k x 2^(-e) for k >= 0, e <= 0 and ceil(2^(-e) / 5^(-k)) for k < 0, and
\* so return identical significands for the same (k, bits).
C14_RoundingDirection ==
    "powers" \in done =>
        /\ powers.pow5.f = RuleSignificand(pw.k, powers.pow5.e)
        /\ powers.ryu.f = RuleSignificand(pw.k, powers.ryu.e)
        /\ powers.ryuChunks.f = RuleSignificand(pw.k, powers.ryuChunks.e)
        /\ powers.ryu.f = powers.pow5.f
        /\ powers.ryuChunks.f = powers.pow5.f

\* The error bound of one entry (f, e) for exponent k at width bits:
\* 0 <= 5^k - f*2^e < 2^e for k >= 0, 0 <= f*5^(-k) - 2^(-e) < 5^(-k) for
\* k < 0, and a relative error below 2^-(bits-1).
ErrorBound(f, e, k, bits) ==
    IF k >= 0 /\ e > 0
    THEN /\ 0 <= 5^k - f * 2^e
         /\ 5^k - f * 2^e < 2^e
         /\ (5^k - f * 2^e) * 2^(bits - 1) < 5^k
    ELSE IF k >= 0
    THEN f = 5^k * 2^(0 - e)
    ELSE /\ 0 <= f * 5^(0 - k) - 2^(0 - e)
         /\ f * 5^(0 - k) - 2^(0 - e) < 5^(0 - k)
         /\ (f * 5^(0 - k) - 2^(0 - e)) * 2^(bits - 1) < 2^(0 - e)

\* C15: every entry (f, e) that ComputePow5 makes for exponent k differs
\* from the true power by less than one unit of f's last place, on the
\* documented side, and its relative error is below 2^-(bits-1); so does
\* every entry of CachedPow5.
C15_ErrorBound ==
    /\ "powers" \in done =>
        ErrorBound(powers.pow5.f, powers.pow5.e, pw.k, pw.bits)
    /\ \A i \in DOMAIN table :
        ErrorBound(table[i],
                   FloorLog2Pow5(i + CachedPow5MinDecExp) + 1 - CachedPow5Bits,
                   i + CachedPow5MinDecExp, CachedPow5Bits)

\* C15 witness: ComputePow5 has made an inexact entry: a truncated one, for
\* a positive k with a positive shift, or a rounded-up one at the largest
\* width, for a negative k.
C15_Witness ==
    /\ "powers" \in done
    /\ powers.pow5.asserts
    /\ \/ /\ pw.k > 0 /\ powers.pow5.e > 0
          /\ 5^pw.k - powers.pow5.f * 2^powers.pow5.e > 0
       \/ /\ pw.k < 0 /\ pw.bits = MaxPowBits
          /\ powers.pow5.f * 5^(0 - pw.k) - 2^(0 - powers.pow5.e) > 0

---------------------------------------------------------------------------
(* The log functions (dtoa/dtoa_ryu.py, powers.py, baseconv.py) and their  *)
(* exhaustive test (ryu/compute_logs.py)                                   *)
(*                                                                         *)
(* The test walks e = 0, 1, 2, ... and compares each function with the     *)
(* exact power.  2^e is kept exactly, as a sequence of limbs below 10^9,   *)
(* least significant first; its number of decimal digits D(e) gives        *)
(* 10^(D-1) <= 2^e < 10^D.                                                 *)

\* The asserted domains of the log functions.
FloorLog10MaxExp == 2620
FloorLog2Pow5MaxExp == 12654
FloorLog2Pow10MinExp == -1233
FloorLog2Pow10MaxExp == 1232
CeilLog10Pow2MaxExp == 1650

\* LogApprox.IsFloor and IsCeil are also run as they are written for
\* |e| <= MaxDirectExp, where b**k and B**e are small.
MaxDirectExp == 8

LimbBase == 10^9

\* y *= self.B**e for B = 2, one factor at a time: the limbs of 2 * a.  A
\* limb's carry is 1 exactly when the limb below it is at least
\* LimbBase / 2, whatever that limb received itself, since 2 * x % LimbBase
\* is even and so at most LimbBase - 2.
TimesTwo(a) ==
    LET len == Len(a)
        m == IF 2 * a[len] >= LimbBase THEN len + 1 ELSE len
    IN  [i \in 1 .. m |->
            (IF i <= len THEN (2 * a[i]) % LimbBase ELSE 0)
            + (IF i > 1 /\ 2 * a[i - 1] >= LimbBase THEN 1 ELSE 0)]

\* len(str(y)) of the integer with the limbs a.
DecimalDigits(a) == 9 * (Len(a) - 1) + NumDigits(a[Len(a)])

\* LogApprox.IsFloor(k, e): b^k <= B^e < b^(k+1)
IsFloor(b, B, k, e) ==
    LET x == (IF k >= 0 THEN b^k ELSE 1) * (IF e >= 0 THEN 1 ELSE B^(0 - e))
        y == (IF k >= 0 THEN 1 ELSE b^(0 - k)) * (IF e >= 0 THEN B^e ELSE 1)
    IN  x <= y /\ y < x * b

\* LogApprox.IsCeil(k, e): b^(k-1) < B^e <= b^k
IsCeil(b, B, k, e) ==
    LET x == (IF k >= 0 THEN b^k ELSE 1) * (IF e >= 0 THEN 1 ELSE B^(0 - e))
        y == b * (IF k >= 0 THEN 1 ELSE b^(0 - k)) * (IF e >= 0 THEN B^e ELSE 1)
    IN  x < y /\ y <= x * b

\* The test starts at e = 0; the conversions and the generators are idle.
InitLog ==
    /\ mode = "log"
    /\ flt = [f |-> 1, e |-> 0]
    /\ dec = [d |-> 1, k |-> 0]
    /\ done = {}
    /\ src = NoBinary
    /\ bd = NoDecimal
    /\ ryu = NoResult
    /\ adams = NoResult
    /\ back = NoBinary
    /\ again = NoDecimal
    /\ bin = NoBinary
    /\ table = CachedPow5Initial
    /\ pw = [k |-> 0, bits |-> 1]
    /\ powers = NoPowers
    /\ logExp = 0
    /\ pow2 = <<1>>
    /\ prevDigits = 1
    /\ dbl = DoubleIdle
    /\ dryu = RyuIdle
    /\ call = NoCall
    /\ ret = NoReturn
    /\ run = NoRun

\* for e in range(0, max_exponent + 1): the next exponent and its power.
NextExponent ==
    /\ mode = "log"
    /\ logExp < MaxLogPow2
    /\ logExp' = logExp + 1
    /\ pow2' = TimesTwo(pow2)
    /\ prevDigits' = DecimalDigits(pow2)
    /\ UNCHANGED convVars
    /\ UNCHANGED powerVars
    /\ UNCHANGED <<dbl, dryu>>
    /\ UNCHANGED toolVars

NextLog == NextExponent

SpecLog == InitLog /\ [][NextLog]_vars

\* The exact logs that 2^e with D digits decides, for e >= 1, where 2^e is
\* no power of 10 and 5^e is no power of 2 or 10:
\*   10^(D-1) < 2^e < 10^D, so floor(log10 2^e) = D - 1, ceil = D,
\*   floor(log10 2^-e) = -D and ceil(log10 2^-e) = 1 - D;
\*   5^e = 10^e / 2^e, so 10^(e-D) < 5^e < 10^(e-D+1):
\*   floor(log10 5^e) = e - D and floor(log10 5^-e) = D - e - 1.
Log10Exact(e, D) ==
    /\ e <= FloorLog10MaxExp =>
        /\ FloorLog10Pow2(e) = D - 1
        /\ FloorLog10Pow2(0 - e) = 0 - D
        /\ FloorLog10Pow5(e) = e - D
        /\ FloorLog10Pow5(0 - e) = D - e - 1
    /\ e <= CeilLog10Pow2MaxExp =>
        /\ CeilLog10Pow2(e) = D
        /\ CeilLog10Pow2(0 - e) = 1 - D

\* When 2^(n-1) has t digits and 2^n has t + 1, 2^(n-1) < 10^t < 2^n, so
\*   floor(log2 10^t) = n - 1 and floor(log2 10^-t) = -n;
\*   5^t = 10^t / 2^t, so 2^(n-1-t) < 5^t < 2^(n-t):
\*   floor(log2 5^t) = n - 1 - t and floor(log2 5^-t) = t - n.
Log2Exact(n, t) ==
    /\ t <= FloorLog2Pow10MaxExp => FloorLog2Pow10(t) = n - 1
    /\ 0 - t >= FloorLog2Pow10MinExp => FloorLog2Pow10(0 - t) = 0 - n
    /\ t <= FloorLog2Pow5MaxExp =>
        /\ FloorLog2Pow5(t) = n - 1 - t
        /\ FloorLog2Pow5(0 - t) = t - n

\* The functions' results, put to LogApprox.IsFloor and IsCeil as written.
LogDirect(e) ==
    /\ IsFloor(10, 2, FloorLog10Pow2(e), e)
    /\ IsFloor(10, 5, FloorLog10Pow5(e), e)
    /\ IsFloor(2, 5, FloorLog2Pow5(e), e)
    /\ IsFloor(2, 10, FloorLog2Pow10(e), e)
    /\ e # 0 => IsCeil(10, 2, CeilLog10Pow2(e), e)

\* C16: each multiply-shift log function returns the exact mathematical
\* value for every e in its asserted domain: FloorLog10Pow2 and
\* FloorLog10Pow5 for |e| <= 2620, FloorLog2Pow5 for |e| <= 12654,
\* FloorLog2Pow10 for -1233 <= e <= 1232, CeilLog10Pow2 for |e| <= 1650.
C16_ExactLogs ==
    mode = "log" =>
        /\ logExp = 0 =>
            /\ FloorLog10Pow2(0) = 0 /\ FloorLog10Pow5(0) = 0
            /\ FloorLog2Pow5(0) = 0 /\ FloorLog2Pow10(0) = 0
            /\ CeilLog10Pow2(0) = 0
        /\ logExp >= 1 => Log10Exact(logExp, DecimalDigits(pow2))
        /\ DecimalDigits(pow2) > prevDigits => Log2Exact(logExp, prevDigits)
        /\ logExp <= MaxDirectExp => LogDirect(logExp) /\ LogDirect(0 - logExp)

\* C16 witness: the test has reached the last exponent of CeilLog10Pow2's
\* domain, where 2^1650 has 497 digits, and the functions return the exact
\* logs.
C16_Witness ==
    /\ mode = "log"
    /\ logExp = CeilLog10Pow2MaxExp
    /\ DecimalDigits(pow2) = 497
    /\ CeilLog10Pow2(logExp) = 497
    /\ FloorLog10Pow2(logExp) = 496
    /\ FloorLog10Pow5(logExp) = 1153

-----
(* The 53-bit format of the source (baseconv.py as it is run)              *)
(*                                                                         *)
(* The assertions at the end of baseconv.py run Dtoa and DtoaPow2 with     *)
(* PRECISION = 53 and EXPONENT_BITS = 11.  Their integers reach 2^1127, so *)
(* Python's unbounded integers are kept as sequences of limbs below 10^8,  *)
(* least significant first, without leading zero limbs.                    *)

BigBase == 10^8

\* The loops of BinaryFromFraction run in blocks of this many iterations.
ScaleBlock == 32

\* a * 2.  The carry into a limb is 1 exactly when the limb below is at
\* least BigBase / 2: (2 * x) % BigBase is even, so adding the carry it
\* received never overflows it.
BigTimesTwo(a) ==
    LET len == Len(a)
        m == IF 2 * a[len] >= BigBase THEN len + 1 ELSE len
    IN  [i \in 1 .. m |->
            (IF i <= len THEN (2 * a[i]) % BigBase ELSE 0)
            + (IF i > 1 /\ 2 * a[i - 1] >= BigBase THEN 1 ELSE 0)]

\* a * 10.  The carry into a limb is the top digit of the limb below.
BigTimesTen(a) ==
    LET len == Len(a)
        m == IF 10 * a[len] >= BigBase THEN len + 1 ELSE len
    IN  [i \in 1 .. m |->
            (IF i <= len THEN (10 * a[i]) % BigBase ELSE 0)
            + (IF i > 1 THEN a[i - 1] \div (BigBase \div 10) ELSE 0)]

\* a * 16.  BigBase is a multiple of 16, so (16 * x) % BigBase is at most
\* BigBase - 16, and adding the carry of the limb below, at most 15, never
\* overflows it.
BigTimesSixteen(a) ==
    LET len == Len(a)
        m == IF 16 * a[len] >= BigBase THEN len + 1 ELSE len
    IN  [i \in 1 .. m |->
            (IF i <= len THEN (16 * a[i]) % BigBase ELSE 0)
            + (IF i > 1 THEN (16 * a[i - 1]) \div BigBase ELSE 0)]

\* a * 2**n: by 16 while four doublings remain, in blocks of ScaleBlock
\* products, then by 2; 0 * 2**n is 0.
RECURSIVE BigDoubleBlock(_, _)
BigDoubleBlock(a, n) ==
    IF n = 0 \/ a = <<0>> THEN a ELSE BigDoubleBlock(BigTimesTwo(a), n - 1)

RECURSIVE BigSixteenBlock(_, _)
BigSixteenBlock(a, n) ==
    IF n = 0 \/ a = <<0>> THEN a
    ELSE BigSixteenBlock(BigTimesSixteen(a), n - 1)

RECURSIVE BigTimesPow2(_, _)
BigTimesPow2(a, n) ==
    IF a = <<0>> THEN a
    ELSE IF n >= 4 * ScaleBlock
    THEN BigTimesPow2(BigSixteenBlock(a, ScaleBlock), n - 4 * ScaleBlock)
    ELSE BigDoubleBlock(BigSixteenBlock(a, n \div 4), n % 4)

\* a * 10**k: whole limbs of zeros for 10^8, then single digits.
RECURSIVE BigTenBlock(_, _)
BigTenBlock(a, n) ==
    IF n = 0 \/ a = <<0>> THEN a ELSE BigTenBlock(BigTimesTen(a), n - 1)

BigTimesPow10(a, k) ==
    LET q == k \div 8
        shifted == [i \in 1 .. Len(a) + q |-> IF i <= q THEN 0 ELSE a[i - q]]
    IN  IF a = <<0>> THEN a ELSE BigTenBlock(shifted, k % 8)

\* a < b, a <= b: the longer number is larger; of two numbers of one
\* length, the one larger in the highest limb that differs.
RECURSIVE BigCompareFrom(_, _, _)
BigCompareFrom(a, b, i) ==
    IF i = 0 THEN 0
    ELSE IF a[i] < b[i] THEN -1
    ELSE IF a[i] > b[i] THEN 1
    ELSE BigCompareFrom(a, b, i - 1)

BigCompare(a, b) ==
    IF Len(a) < Len(b) THEN -1
    ELSE IF Len(a) > Len(b) THEN 1
    ELSE BigCompareFrom(a, b, Len(a))

BigLess(a, b) == BigCompare(a, b) < 0
BigLeq(a, b) == BigCompare(a, b) <= 0

\* a + b
RECURSIVE BigAddFrom(_, _, _, _, _)
BigAddFrom(a, b, i, carry, acc) ==
    IF i > Len(a) /\ i > Len(b)
    THEN (IF carry = 0 THEN acc ELSE Append(acc, carry))
    ELSE LET t == (IF i <= Len(a) THEN a[i] ELSE 0)
                  + (IF i <= Len(b) THEN b[i] ELSE 0) + carry
         IN  BigAddFrom(a, b, i + 1, t \div BigBase, Append(acc, t % BigBase))

BigAdd(a, b) == BigAddFrom(a, b, 1, 0, <<>>)

\* Without leading zero limbs.
RECURSIVE BigTrim(_)
BigTrim(a) ==
    IF Len(a) > 1 /\ a[Len(a)] = 0 THEN BigTrim(SubSeq(a, 1, Len(a) - 1)) ELSE a

\* a - b for a >= b
RECURSIVE BigSubFrom(_, _, _, _, _)
BigSubFrom(a, b, i, borrow, acc) ==
    IF i > Len(a)
    THEN BigTrim(acc)
    ELSE LET t == a[i] - (IF i <= Len(b) THEN b[i] ELSE 0) - borrow
         IN  BigSubFrom(a, b, i + 1, IF t < 0 THEN 1 ELSE 0,
                        Append(acc, IF t < 0 THEN t + BigBase ELSE t))

BigSub(a, b) == BigSubFrom(a, b, 1, 0, <<>>)

\* divmod(a, b) for a quotient of one digit: q counts the subtractions, and
\* stops at 10, a quotient the assertions that follow reject.
RECURSIVE BigDigitDivMod(_, _, _)
BigDigitDivMod(a, b, q) ==
    IF q = 10 \/ BigLess(a, b)
    THEN [q |-> q, r |-> a]
    ELSE BigDigitDivMod(BigSub(a, b), b, q + 1)

\* divmod(num, den) by long division from the digit at 10^j down: the digit
\* at 10^j is the one-digit quotient of the remainder by den * 10^j, and
\* the digits below a remainder smaller than den are zeros.
RECURSIVE BigLongDivision(_, _, _, _)
BigLongDivision(rem, den, j, quot) ==
    IF j < 0
    THEN [q |-> quot, r |-> rem]
    ELSE IF BigLess(rem, den)
    THEN [q |-> BigTimesPow10(quot, j + 1), r |-> rem]
    ELSE LET t == BigDigitDivMod(rem, BigTimesPow10(den, j), 0)
         IN  IF quot = <<0>>
             THEN BigLongDivision(t.r, den, j - 1, <<t.q>>)
             ELSE BigLongDivision(t.r, den, j - 1,
                                  BigAdd(BigTimesTen(quot), <<t.q>>))

\* divmod(num, den) for a quotient below 10^17
BigDivMod(num, den) == BigLongDivision(num, den, 16, <<0>>)

BigIsOdd(a) == a[1] % 2 = 1


\* HIDDEN_BIT = 2**(PRECISION - 1) and 2**PRECISION
DoubleHiddenBit == BigTimesPow2(<<1>>, DoublePrecision - 1)
DoubleOverflow == BigTimesPow2(<<1>>, DoublePrecision)

\* while num >= 2**p * den: den *= 2; e += 1, for at most fuel iterations.
\* st.lim is 2**p * den.
RECURSIVE DoubleScaleDownBlock(_, _)
DoubleScaleDownBlock(st, fuel) ==
    IF fuel = 0 \/ BigLess(st.num, st.lim)
    THEN st
    ELSE DoubleScaleDownBlock(
            [num |-> st.num, den |-> BigTimesTwo(st.den),
             lim |-> BigTimesTwo(st.lim), e |-> st.e + 1], fuel - 1)

\* while num < 2**(p - 1) * den: num *= 2; e -= 1, for at most fuel
\* iterations.  st.lim is 2**(p - 1) * den.
RECURSIVE DoubleScaleUpBlock(_, _)
DoubleScaleUpBlock(st, fuel) ==
    IF fuel = 0 \/ ~BigLess(st.num, st.lim)
    THEN st
    ELSE DoubleScaleUpBlock(
            [num |-> BigTimesTwo(st.num), lim |-> st.lim, e |-> st.e - 1],
            fuel - 1)

\* Divide and round: f, r = divmod(num, den), round to nearest-even, and
\* move a trailing zero into the exponent at 2**PRECISION.
DoubleDivideAndRound(num, den, e) ==
    LET t == BigDivMod(num, den)
        isExact == (t.r = <<0>>)
        r2 == BigTimesTwo(t.r)
        up == /\ ~isExact
              /\ \/ BigLess(den, r2)
                 \/ (r2 = den /\ BigIsOdd(t.q))
        f1 == IF up THEN BigAdd(t.q, <<1>>) ELSE t.q
        carry == up /\ f1 = DoubleOverflow
        f == IF carry THEN DoubleHiddenBit ELSE f1
    IN  [f |-> f,
         e |-> IF carry THEN e + 1 ELSE e,
         isExact |-> isExact,
         asserts |-> /\ BigLess(t.q, DoubleOverflow)
                     /\ f # <<0>>
                     /\ BigLess(f, DoubleOverflow)]

\* EffectivePrecision(f)
RECURSIVE DoubleEffectivePrecisionLoop(_, _)
DoubleEffectivePrecisionLoop(f, p) ==
    IF BigLess(f, DoubleHiddenBit)
    THEN DoubleEffectivePrecisionLoop(BigTimesTwo(f), p - 1)
    ELSE p

DoubleEffectivePrecision(f) == DoubleEffectivePrecisionLoop(f, DoublePrecision)

\* CeilLog10Pow2(e) with its two assertions
DoubleCeilLog10Pow2InRange(e) ==
    e >= 0 - CeilLog10Pow2MaxExp /\ e <= CeilLog10Pow2MaxExp

\* tc1 as if the low end of the rounding interval were never reached
DoubleLowTestNever(r, mm, acceptBounds) == FALSE

\* The last digit as if the digit below were always the closer one
DoubleCloserIsBelow(r, s, q) == FALSE

\* (r * 2 > s) or (r * 2 == s and q % 2 != 0): with both ends reached, the
\* digit above is the closer one, or the odd digit's neighbour at a tie.
DoubleCloserIsAbove(r, s, q) ==
    LET r2 == BigTimesTwo(r)
    IN  BigLess(s, r2) \/ (r2 = s /\ q % 2 # 0)

\* (r + mp >= s) if acceptBounds else (r + mp > s)
DoubleHighTest(r, mp, s, acceptBounds) ==
    IF acceptBounds THEN BigLeq(s, BigAdd(r, mp)) ELSE BigLess(s, BigAdd(r, mp))

\* (r <= mm) if acceptBounds else (r < mm)
DoubleLowTest(r, mm, acceptBounds) ==
    IF acceptBounds THEN BigLeq(r, mm) ELSE BigLess(r, mm)

\* The fraction DtoaPow2 hands to BinaryFromFraction; fractions.Fraction(v)
\* of a float v = m * 2**e with m odd has the same numerator and denominator.
DoubleFraction(m, e) ==
    IF e >= 0
    THEN [num |-> BigTimesPow2(m, e), den |-> <<1>>]
    ELSE [num |-> m, den |-> BigTimesPow2(<<1>>, 0 - e)]

\* 2**53 - 1, the second significand of the DtoaPow2 loop
DtoaPow2Significand == <<54740991, 90071992>>

\* The floats of the assertions on Dtoa, as m * 2**e, with the digits and
\* the exponent each assertion expects.
DtoaLiterals == <<
    [m |-> <<1>>, e |-> 0,
     d |-> <<1>>, k |-> 0],
    [m |-> <<3>>, e |-> -1,
     d |-> <<1, 5>>, k |-> -1],
    [m |-> <<12345>>, e |-> 0,
     d |-> <<1, 2, 3, 4, 5>>, k |-> 0],
    [m |-> <<1>>, e |-> -1074,
     d |-> <<5>>, k |-> -324],
    [m |-> <<54740991, 90071992>>, e |-> 971,
     d |-> <<1, 7, 9, 7, 6, 9, 3, 1, 3, 4, 8, 6, 2, 3, 1, 5, 7>>, k |-> 292],
    [m |-> <<36870909, 5>>, e |-> 3,
     d |-> <<4, 2, 9, 4, 9, 6, 7, 2, 7, 2>>, k |-> 0],
    [m |-> <<1>>, e |-> 992,
     d |-> <<4, 1, 8, 5, 5, 8, 0, 4, 9, 6, 8, 2, 1, 3, 5, 7>>, k |-> 283],
    [m |-> <<1>>, e |-> -1024,
     d |-> <<5, 5, 6, 2, 6, 8, 4, 6, 4, 6, 2, 6, 8, 0, 0, 3>>, k |-> -324],
    [m |-> <<1>>, e |-> 31,
     d |-> <<2, 1, 4, 7, 4, 8, 3, 6, 4, 8>>, k |-> 0],
    [m |-> <<21142745, 77135835>>, e |-> 939,
     d |-> <<3, 5, 8, 4, 4, 4, 6, 6, 0, 0, 2, 7, 9, 6, 4, 2, 8>>, k |-> 282],
    [m |-> <<38418769, 68056473>>, e |-> -129,
     d |-> <<1>>, k |-> -23],
    [m |-> <<37647035, 49909541>>, e |-> -80,
     d |-> <<4, 1, 2, 8, 4, 2, 0, 5, 0, 0, 8, 0, 2, 9, 4, 2>>, k |-> -24],
    [m |-> <<3845663, 76001812>>, e |-> -84,
     d |-> <<3, 9, 2, 9, 2, 0, 1, 5, 8, 9, 8, 1, 9, 4, 1, 4, 3>>, k |-> -26],
    [m |-> <<1>>, e |-> -1019,
     d |-> <<1, 7, 8, 0, 0, 5, 9, 0, 8, 6, 8, 0, 5, 7, 6, 1, 1>>, k |-> -323],
    [m |-> <<1>>, e |-> -959,
     d |-> <<2, 0, 5, 2, 2, 6, 8, 4, 0, 0, 6, 4, 9, 1, 8, 8, 1>>, k |-> -305],
    [m |-> <<1>>, e |-> -875,
     d |-> <<3, 9, 6, 9, 6, 6, 4, 4, 1, 3, 3, 1, 8, 4, 3, 8, 3>>, k |-> -280],
    [m |-> <<1>>, e |-> -809,
     d |-> <<2, 9, 2, 9, 0, 9, 5, 3, 3, 9, 6, 3, 9, 9, 0, 4, 2>>, k |-> -260],
    [m |-> <<1>>, e |-> -776,
     d |-> <<2, 5, 1, 6, 0, 7, 3, 7, 3, 8, 1, 2, 3, 8, 8, 0, 2>>, k |-> -250],
    [m |-> <<1>>, e |-> -735,
     d |-> <<5, 5, 3, 2, 9, 0, 4, 6, 6, 2, 8, 1, 8, 0, 6, 5, 3>>, k |-> -238],
    [m |-> <<1>>, e |-> -619,
     d |-> <<4, 5, 9, 6, 5, 5, 7, 3, 5, 9, 8, 9, 1, 6, 7, 0, 5>>, k |-> -203],
    [m |-> <<1>>, e |-> -530,
     d |-> <<2, 8, 4, 5, 1, 3, 1, 1, 9, 9, 3, 4, 0, 8, 9, 9, 2>>, k |-> -176],
    [m |-> <<1>>, e |-> -486,
     d |-> <<5, 0, 0, 5, 2, 0, 7, 7, 3, 7, 9, 5, 7, 7, 5, 2, 3>>, k |-> -163],
    [m |-> <<1>>, e |-> -393,
     d |-> <<4, 9, 5, 6, 9, 1, 7, 6, 5, 1, 0, 0, 7, 1, 2, 7, 4>>, k |-> -135],
    [m |-> <<1>>, e |-> -320,
     d |-> <<4, 6, 8, 1, 6, 7, 6, 3, 5, 4, 6, 9, 2, 1, 9, 8, 3>>, k |-> -113],
    [m |-> <<1>>, e |-> -187,
     d |-> <<5, 0, 9, 7, 8, 9, 4, 1, 1, 5, 6, 2, 3, 8, 4, 7, 3>>, k |-> -73],
    [m |-> <<1>>, e |-> -88,
     d |-> <<3, 2, 3, 1, 1, 7, 4, 2, 6, 7, 7, 8, 5, 2, 6, 4, 4>>, k |-> -43],
    [m |-> <<1>>, e |-> 85,
     d |-> <<3, 8, 6, 8, 5, 6, 2, 6, 2, 2, 7, 6, 6, 8, 1, 3, 4>>, k |-> 9],
    [m |-> <<1>>, e |-> 185,
     d |-> <<4, 9, 0, 3, 9, 8, 5, 7, 3, 0, 7, 7, 0, 8, 4, 4, 3>>, k |-> 39],
    [m |-> <<1>>, e |-> 307,
     d |-> <<2, 6, 0, 7, 4, 0, 6, 0, 4, 9, 7, 0, 8, 1, 4, 2, 2>>, k |-> 76],
    [m |-> <<1>>, e |-> 371,
     d |-> <<4, 8, 0, 9, 8, 1, 5, 2, 0, 9, 5, 2, 0, 8, 1, 0, 5>>, k |-> 95],
    [m |-> <<1>>, e |-> 464,
     d |-> <<4, 7, 6, 3, 4, 1, 0, 2, 6, 3, 5, 4, 3, 6, 8, 9, 3>>, k |-> 123],
    [m |-> <<1>>, e |-> 537,
     d |-> <<4, 4, 9, 8, 9, 1, 3, 7, 9, 4, 5, 4, 3, 1, 9, 6, 4>>, k |-> 145],
    [m |-> <<1>>, e |-> 670,
     d |-> <<4, 8, 9, 8, 8, 8, 3, 3, 1, 0, 6, 5, 7, 3, 4, 2, 4>>, k |-> 185],
    [m |-> <<1>>, e |-> 787,
     d |-> <<8, 1, 3, 9, 6, 6, 6, 0, 5, 5, 7, 6, 1, 5, 4, 1>>, k |-> 221],
    [m |-> <<1>>, e |-> 894,
     d |-> <<1, 3, 2, 0, 7, 3, 6, 3, 2, 7, 8, 3, 9, 1, 6, 3, 1>>, k |-> 253],
    [m |-> <<4513955, 34599069>>, e |-> -20,
     d |-> <<3, 2, 9, 9, 6, 2, 4, 3, 5, 1, 9, 9, 1, 6, 1, 0, 5>>, k |-> -7],
    [m |-> <<85573085, 31080635>>, e |-> -51,
     d |-> <<1, 3, 8, 0, 2, 5, 7, 5, 0, 1, 8, 8, 0, 9, 0, 3, 8>>, k |-> -16]
>>

\* for e in range(MIN_EXPONENT, MAX_EXPONENT + 1): of its 2046 exponents,
\* every DtoaPow2Stride-th from MIN_EXPONENT, and MAX_EXPONENT.
DtoaPow2Stride == 16

DtoaPow2Exponents ==
    {e \in DoubleMinExponent .. DoubleMaxExponent :
        (e - DoubleMinExponent) % DtoaPow2Stride = 0}
    \cup {DoubleMaxExponent}

\* The runs at the end of baseconv.py: every Dtoa assertion, and DtoaPow2
\* of both significands at the exponents of DtoaPow2Exponents.
DoubleInputs ==
    {[m |-> DtoaLiterals[i].m, e |-> DtoaLiterals[i].e] :
        i \in 1 .. Len(DtoaLiterals)}
    \cup [m : {<<1>>, DtoaPow2Significand}, e : DtoaPow2Exponents]

DoubleStart(inp) ==
    LET fr == DoubleFraction(inp.m, inp.e)
    IN  [pc |-> "scale_down", inp |-> inp,
         num |-> fr.num, den |-> fr.den,
         lim |-> BigTimesPow2(fr.den, DoublePrecision),
         e |-> 0, p |-> DoublePrecision,
         f |-> NoBig, isExact |-> TRUE,
         r |-> NoBig, s |-> NoBig, mp |-> NoBig, mm |-> NoBig,
         k |-> 0, d |-> <<>>]

\* BinaryFromFraction, entry: assert num != 0; assert den != 0.  The first
\* loop, while num >= 2**p * den.
ScaleDownStep ==
    /\ dbl.pc = "scale_down"
    /\ IF dbl.num = <<0>> \/ dbl.den = <<0>>
       THEN dbl' = [dbl EXCEPT !.pc = "failed"]
       ELSE LET st == DoubleScaleDownBlock(
                        [num |-> dbl.num, den |-> dbl.den, lim |-> dbl.lim,
                         e |-> dbl.e],
                        ScaleBlock)
                over == BigLess(st.num, st.lim)
            IN  dbl' = [dbl EXCEPT
                          !.den = st.den, !.e = st.e,
                          !.lim = IF over
                                  THEN BigTimesPow2(st.den, dbl.p - 1)
                                  ELSE st.lim,
                          !.pc = IF over THEN "scale_up" ELSE "scale_down"]
    /\ UNCHANGED <<convVars, powerVars, logVars, toolVars, dryu>>

\* The second loop, while num < 2**(p - 1) * den.
ScaleUpStep ==
    /\ dbl.pc = "scale_up"
    /\ LET st == DoubleScaleUpBlock(
                    [num |-> dbl.num, lim |-> dbl.lim, e |-> dbl.e],
                    ScaleBlock)
       IN  dbl' = [dbl EXCEPT
                     !.num = st.num, !.e = st.e,
                     !.pc = IF BigLess(st.num, st.lim)
                            THEN "scale_up" ELSE "reduce"]
    /\ UNCHANGED <<convVars, powerVars, logVars, toolVars, dryu>>

\* The third loop, while e < MIN_EXPONENT and p > 1, one iteration a step.
ReducePrecisionStep ==
    /\ dbl.pc = "reduce"
    /\ IF dbl.e < DoubleMinExponent /\ dbl.p > 1
       THEN dbl' = [dbl EXCEPT !.den = BigTimesTwo(dbl.den),
                               !.e = dbl.e + 1, !.p = dbl.p - 1]
       ELSE dbl' = [dbl EXCEPT !.pc = "divide"]
    /\ UNCHANGED <<convVars, powerVars, logVars, toolVars, dryu>>

\* Divide and round, with the four assertions on f.
DivideAndRoundStep ==
    /\ dbl.pc = "divide"
    /\ LET b == DoubleDivideAndRound(dbl.num, dbl.den, dbl.e)
       IN  dbl' = [dbl EXCEPT !.f = b.f, !.e = b.e, !.isExact = b.isExact,
                              !.pc = IF b.asserts THEN "init" ELSE "failed"]
    /\ UNCHANGED <<convVars, powerVars, logVars, toolVars, dryu>>

\* BurgerDybvig, its four assertions on f and e, and Init.
BurgerDybvigInitStep ==
    /\ dbl.pc = "init"
    /\ LET f == dbl.f
           e == dbl.e
           ok == /\ f # <<0>> /\ BigLess(f, DoubleOverflow)
                 /\ e >= DoubleMinExponent /\ e <= DoubleMaxExponent
           a == IF e >= 0
                THEN [r |-> BigTimesPow2(f, e + 1), s |-> <<2>>,
                      mp |-> BigTimesPow2(<<1>>, e),
                      mm |-> BigTimesPow2(<<1>>, e)]
                ELSE [r |-> BigTimesTwo(f), s |-> BigTimesPow2(<<1>>, 1 - e),
                      mp |-> <<1>>, mm |-> <<1>>]
           lowerBoundaryIsCloser == f = DoubleHiddenBit /\ e # DoubleMinExponent
       IN  IF ~ok
           THEN dbl' = [dbl EXCEPT !.pc = "failed"]
           ELSE dbl' = [dbl EXCEPT
                          !.r = IF lowerBoundaryIsCloser
                                THEN BigTimesTwo(a.r) ELSE a.r,
                          !.s = IF lowerBoundaryIsCloser
                                THEN BigTimesTwo(a.s) ELSE a.s,
                          !.mp = IF lowerBoundaryIsCloser
                                 THEN BigTimesTwo(a.mp) ELSE a.mp,
                          !.mm = a.mm,
                          !.pc = "scale"]
    /\ UNCHANGED <<convVars, powerVars, logVars, toolVars, dryu>>

\* BurgerDybvig, Scale: the estimate k, the fixup and the two assertions.
BurgerDybvigScaleStep ==
    /\ dbl.pc = "scale"
    /\ LET acceptBounds == ~BigIsOdd(dbl.f)
           p  == DoubleEffectivePrecision(dbl.f)
           x  == dbl.e + (p - 1)
           k0 == CeilLog10Pow2(x)
           s0 == IF k0 >= 0 THEN BigTimesPow10(dbl.s, k0) ELSE dbl.s
           r0 == IF k0 >= 0 THEN dbl.r ELSE BigTimesPow10(dbl.r, 0 - k0)
           mp0 == IF k0 >= 0 THEN dbl.mp ELSE BigTimesPow10(dbl.mp, 0 - k0)
           mm0 == IF k0 >= 0 THEN dbl.mm ELSE BigTimesPow10(dbl.mm, 0 - k0)
           hi == BigAdd(r0, mp0)
           fix == DoubleHighTest(r0, mp0, s0, acceptBounds)
           s1 == IF fix THEN BigTimesTen(s0) ELSE s0
           ok == /\ (IF acceptBounds THEN BigLess(hi, s1) ELSE BigLeq(hi, s1))
                 /\ (IF acceptBounds THEN BigLeq(s1, BigTimesTen(hi))
                                     ELSE BigLess(s1, BigTimesTen(hi)))
       IN  IF ~DoubleCeilLog10Pow2InRange(x)
           THEN dbl' = [dbl EXCEPT !.pc = "failed"]
           ELSE dbl' = [dbl EXCEPT
                          !.r = r0, !.s = s1, !.mp = mp0, !.mm = mm0,
                          !.k = IF fix THEN k0 + 1 ELSE k0,
                          !.pc = IF ok THEN "generate" ELSE "failed"]
    /\ UNCHANGED <<convVars, powerVars, logVars, toolVars, dryu>>

\* BurgerDybvig, Generate: one iteration of the loop.
GenerateStep ==
    /\ dbl.pc = "generate"
    /\ LET acceptBounds == ~BigIsOdd(dbl.f)
           mp  == BigTimesTen(dbl.mp)
           mm  == BigTimesTen(dbl.mm)
           t   == BigDigitDivMod(BigTimesTen(dbl.r), dbl.s, 0)
           q   == t.q
           r   == t.r
           tc1 == DoubleLowTest(r, mm, acceptBounds)
           tc2 == DoubleHighTest(r, mp, dbl.s, acceptBounds)
           dq  == IF tc1 /\ tc2
                  THEN (IF DoubleCloserIsAbove(r, dbl.s, q) THEN q + 1 ELSE q)
                  ELSE IF ~tc1 /\ tc2 THEN q + 1 ELSE q
       IN  IF dbl.r = <<0>> \/ q > 9 \/ dq > 9
           THEN dbl' = [dbl EXCEPT !.pc = "failed"]
           ELSE dbl' = [dbl EXCEPT
                          !.r = r, !.mp = mp, !.mm = mm,
                          !.d = Append(dbl.d, dq), !.k = dbl.k - 1,
                          !.pc = IF tc1 \/ tc2 THEN "done" ELSE "generate"]
    /\ UNCHANGED <<convVars, powerVars, logVars, toolVars, dryu>>

---------------------------------------------------------------------------
(* DtoaRyu at the 53-bit format (dtoa/dtoa_ryu.py as it is written)        *)
(*                                                                         *)
(* The products of DtoaRyu reach 2^183 and the powers behind its table     *)
(* 2^801; they are kept in the same limbs.                                 *)

\* a * 5.  (5 * x) % BigBase is a multiple of 5, so adding the carry of the
\* limb below, at most 4, never overflows it.
BigTimesFive(a) ==
    LET len == Len(a)
        m == IF 5 * a[len] >= BigBase THEN len + 1 ELSE len
    IN  [i \in 1 .. m |->
            (IF i <= len THEN (5 * a[i]) % BigBase ELSE 0)
            + (IF i > 1 THEN (5 * a[i - 1]) \div BigBase ELSE 0)]

\* a * 5**n, in blocks of ScaleBlock products
RECURSIVE BigFiveBlock(_, _)
BigFiveBlock(a, n) ==
    IF n = 0 \/ a = <<0>> THEN a ELSE BigFiveBlock(BigTimesFive(a), n - 1)

RECURSIVE BigTimesPow5(_, _)
BigTimesPow5(a, n) ==
    IF a = <<0>> THEN a
    ELSE IF n >= ScaleBlock
    THEN BigTimesPow5(BigFiveBlock(a, ScaleBlock), n - ScaleBlock)
    ELSE BigFiveBlock(a, n)

\* a * m for one decimal digit m
RECURSIVE BigTimesDigitFrom(_, _, _, _, _)
BigTimesDigitFrom(a, m, i, carry, acc) ==
    IF i > Len(a)
    THEN (IF carry = 0 THEN acc ELSE Append(acc, carry))
    ELSE LET t == m * a[i] + carry
         IN  BigTimesDigitFrom(a, m, i + 1, t \div BigBase,
                               Append(acc, t % BigBase))

BigTimesDigit(a, m) ==
    IF m = 0 THEN <<0>> ELSE BigTimesDigitFrom(a, m, 1, 0, <<>>)

\* The decimal digit of x at 10^n
BigDigit(x, n) == (x[n \div 8 + 1] \div 10^(n % 8)) % 10

\* x * y, one decimal digit of x at a time from its highest
RECURSIVE BigTimesFrom(_, _, _, _)
BigTimesFrom(x, y, n, acc) ==
    IF n < 0
    THEN acc
    ELSE IF acc = <<0>>
    THEN BigTimesFrom(x, y, n - 1, BigTimesDigit(y, BigDigit(x, n)))
    ELSE BigTimesFrom(x, y, n - 1,
                      BigAdd(BigTimesTen(acc), BigTimesDigit(y, BigDigit(x, n))))

BigTimes(x, y) == BigTimesFrom(x, y, 8 * Len(x) - 1, <<0>>)

\* a // 10 and a % 10
BigDivTen(a) ==
    BigTrim([i \in 1 .. Len(a) |->
                a[i] \div 10
                + (IF i < Len(a) THEN (a[i + 1] % 10) * (BigBase \div 10)
                   ELSE 0)])
BigModTen(a) == a[1] % 10

\* divmod(num, den) for any quotient: the long division starts at the
\* highest power of ten whose multiple of den is not above num.
RECURSIVE BigQuotientDigits(_, _, _)
BigQuotientDigits(num, den, j) ==
    IF BigLess(num, BigTimesPow10(den, j + 1))
    THEN j
    ELSE BigQuotientDigits(num, den, j + 1)

BigFloorDivMod(num, den) ==
    BigLongDivision(num, den, BigQuotientDigits(num, den, 0), <<0>>)

\* CachedPow5Bits as dtoa_ryu.py sets it.
DoubleCachedPow5Bits == 128

\* The quotient of divmod(num, den) as it is, without the increment.
BigTruncationOf(t) == t.q

\* Ceil(num, den): q, r = divmod(num, den); if r > 0: q += 1
BigCeilOf(t) == IF t.r # <<0>> THEN BigAdd(t.q, <<1>>) ELSE t.q
BigCeil(num, den) == BigCeilOf(BigFloorDivMod(num, den))

\* ComputePow5(k, bits = 128)
DoubleComputePow5At(k, e) ==
    IF k >= 0
    THEN (IF e > 0
          THEN BigFloorDivMod(BigTimesPow5(<<1>>, k), BigTimesPow2(<<1>>, e)).q
          ELSE BigTimesPow2(BigTimesPow5(<<1>>, k), 0 - e))
    ELSE BigCeil(BigTimesPow2(<<1>>, 0 - e), BigTimesPow5(<<1>>, 0 - k))

DoubleComputePow5(k) ==
    DoubleComputePow5At(k, FloorLog2Pow5(k) + 1 - DoubleCachedPow5Bits)

\* assert f >= 2**(bits - 1); assert f < 2**bits
DoublePow5Normalized(f) ==
    /\ BigLeq(BigTimesPow2(<<1>>, DoubleCachedPow5Bits - 1), f)
    /\ BigLess(f, BigTimesPow2(<<1>>, DoubleCachedPow5Bits))

\* CachedPow5[i]: the list holds ComputePow5(k, bits=CachedPow5Bits) for k in
\* range(CachedPow5MinDecExp, CachedPow5MaxDecExp + 1); the entry that is
\* read is computed here.
DoubleCachedPow5(i) == DoubleComputePow5(i + CachedPow5MinDecExp)

\* The integers of Step 3 and of MulPow5DivPow2 for the binary exponent e2
\* of the float: e2 -= 2, q_prime, q, e10, the exponent e5 = -e10 of the
\* power of five, k and the shift j, with the assertions of the log
\* functions, of MulPow5DivPow2 and of MulShift that they meet.
RyuShift(e2, e10, e5) ==
    [e5 |-> e5,
     k |-> FloorLog2Pow5(e5) + 1 - DoubleCachedPow5Bits,
     j |-> (e10 - e2) - (FloorLog2Pow5(e5) + 1 - DoubleCachedPow5Bits)]

RyuExponentsOf(e2, q_prime, q) ==
    LET e10 == IF e2 >= 0 THEN q ELSE q + e2
        sh  == RyuShift(e2, e10, 0 - e10)
    IN  [e2 |-> e2, q_prime |-> q_prime, q |-> q, e10 |-> e10,
         e5 |-> sh.e5, k |-> sh.k, j |-> sh.j,
         logInRange |-> IF e2 >= 0
                        THEN e2 <= FloorLog10MaxExp
                        ELSE 0 - e2 <= FloorLog10MaxExp,
         e5InRange |-> /\ sh.e5 >= CachedPow5MinDecExp
                       /\ sh.e5 <= CachedPow5MaxDecExp,
         pow5LogInRange |-> /\ sh.e5 >= 0 - FloorLog2Pow5MaxExp
                            /\ sh.e5 <= FloorLog2Pow5MaxExp,
         jNonNegative |-> sh.j >= 0]

\* q = max(0, q_prime), without the digit of margin.
RyuExponentsWithoutMargin(e2, q_prime) ==
    RyuExponentsOf(e2, q_prime, Max(0, q_prime))

\* q = max(0, q_prime - 1)
RyuExponentsFrom(e2, q_prime) ==
    RyuExponentsOf(e2, q_prime, Max(0, q_prime - 1))

RyuExponents(e2) ==
    RyuExponentsFrom(e2 - 2,
                     IF e2 - 2 >= 0 THEN FloorLog10Pow2(e2 - 2)
                                    ELSE FloorLog10Pow5(0 - (e2 - 2)))

\* MultipleOfPow5 and MultipleOfPow2
DoubleMultipleOfPow5(value, e5) ==
    IF e5 <= 0 THEN TRUE
    ELSE BigFloorDivMod(value, BigTimesPow5(<<1>>, e5)).r = <<0>>

DoubleMultipleOfPow2(value, e2) ==
    IF e2 <= 0 THEN TRUE
    ELSE BigFloorDivMod(value, BigTimesPow2(<<1>>, e2)).r = <<0>>

\* Step 2: u, v, w
DoubleRyuU(v, lowerBoundaryIsCloser) ==
    BigAdd(BigSub(v, <<2>>), IF lowerBoundaryIsCloser THEN <<1>> ELSE <<0>>)

\* Step 3: the trailing-zero flags atz, btz, ctz
DoubleRyuFlags(u, v, w, x, acceptBounds, lowerBoundaryIsCloser) ==
    IF x.e2 >= 0
    THEN [btz |-> x.q <= 22 /\ v[1] % 5 = 0 /\ DoubleMultipleOfPow5(v, x.q),
          atz |-> /\ x.q <= 22 /\ v[1] % 5 # 0 /\ acceptBounds
                  /\ DoubleMultipleOfPow5(u, x.q),
          ctz |-> /\ x.q <= 22 /\ v[1] % 5 # 0 /\ ~acceptBounds
                  /\ DoubleMultipleOfPow5(w, x.q)]
    ELSE [btz |-> IF x.q <= 1 THEN TRUE
                  ELSE IF x.q <= 53 + 2 THEN DoubleMultipleOfPow2(v, x.q - 1)
                  ELSE FALSE,
          atz |-> x.q <= 1 /\ acceptBounds /\ (~lowerBoundaryIsCloser \/ x.q = 0),
          ctz |-> x.q <= 1 /\ ~acceptBounds]

\* MulShift(x, y, j) = (x * y) >> j
DoubleMulShift(x, y, j) ==
    BigFloorDivMod(BigTimes(x, y), BigTimesPow2(<<1>>, j)).q

\* a - 1 for a > 0, and a < c - 1
BigDec(a) == BigSub(a, <<1>>)
BigGap(a, c) == BigLess(BigAdd(a, <<1>>), c)

\* DtoaRyu(m2, e2) on the float that BinaryFromFraction returned.  Step 2,
\* and the integers of Step 3 with the assertions of FloorLog10Pow2 and
\* FloorLog10Pow5.
RyuStep2 ==
    /\ dbl.pc = "done"
    /\ dryu.pc = "idle"
    /\ LET v == BigTimesTwo(BigTimesTwo(dbl.f))
           lowerBoundaryIsCloser ==
               dbl.f = DoubleHiddenBit /\ dbl.e > DoubleMinExponent
           x == RyuExponents(dbl.e)
       IN  dryu' = [dryu EXCEPT
                      !.u = DoubleRyuU(v, lowerBoundaryIsCloser),
                      !.v = v,
                      !.w = BigAdd(v, <<2>>),
                      !.x = x,
                      !.pc = IF x.logInRange THEN "step3" ELSE "failed"]
    /\ UNCHANGED <<convVars, powerVars, logVars, toolVars, dbl>>

\* Step 3: atz, btz, ctz
RyuStep3 ==
    /\ dryu.pc = "step3"
    /\ LET g == DoubleRyuFlags(dryu.u, dryu.v, dryu.w, dryu.x,
                               ~BigIsOdd(dbl.f),
                               dbl.f = DoubleHiddenBit
                               /\ dbl.e > DoubleMinExponent)
       IN  dryu' = [dryu EXCEPT !.atz = g.atz, !.btz = g.btz, !.ctz = g.ctz,
                                !.pc = "scale"]
    /\ UNCHANGED <<convVars, powerVars, logVars, toolVars, dbl>>

\* a, b, c = MulPow5DivPow2(u, v, w, -e10, e10 - e2), up to the read of the
\* table: the assertions on e5, of FloorLog2Pow5 and of MulShift on j, and
\* pow5 = CachedPow5[e5 - CachedPow5MinDecExp].
RyuPow5Step ==
    /\ dryu.pc = "scale"
    /\ IF ~(dryu.x.e5InRange /\ dryu.x.pow5LogInRange /\ dryu.x.jNonNegative)
       THEN dryu' = [dryu EXCEPT !.pc = "failed"]
       ELSE dryu' = [dryu EXCEPT
                       !.pow5 = DoubleCachedPow5(dryu.x.e5
                                                 - CachedPow5MinDecExp),
                       !.pc = "mulshift"]
    /\ UNCHANGED <<convVars, powerVars, logVars, toolVars, dbl>>

\* The three calls of MulShift, the return of MulPow5DivPow2, and
\* assert a < c - 1.  The two assertions that ComputePow5 made on the entry
\* when the table was built are taken here, where the entry is used.
RyuMulShiftStep ==
    /\ dryu.pc = "mulshift"
    /\ dryu' = [dryu EXCEPT
                  !.a = DoubleMulShift(dryu.u, dryu.pow5, dryu.x.j),
                  !.b = DoubleMulShift(dryu.v, dryu.pow5, dryu.x.j),
                  !.c = DoubleMulShift(dryu.w, dryu.pow5, dryu.x.j),
                  !.pc = IF /\ DoublePow5Normalized(dryu.pow5)
                            /\ BigGap(DoubleMulShift(dryu.u, dryu.pow5,
                                                     dryu.x.j),
                                      DoubleMulShift(dryu.w, dryu.pow5,
                                                     dryu.x.j))
                         THEN "step4" ELSE "failed"]
    /\ UNCHANGED <<convVars, powerVars, logVars, toolVars, dbl>>

\* Step 4, up to the loops: if ctz: c -= 1; bi = 0;
\* assert (q_prime == 0) or (a / 10 < c / 10)
RyuStep4 ==
    /\ dryu.pc = "step4"
    /\ LET c == IF dryu.ctz THEN BigDec(dryu.c) ELSE dryu.c
       IN  dryu' = [dryu EXCEPT
                      !.c = c, !.bi = 0, !.e10 = dryu.x.e10,
                      !.roundDown = TRUE,
                      !.pc = IF ~(dryu.x.q_prime = 0
                                  \/ BigLess(BigDivTen(dryu.a), BigDivTen(c)))
                             THEN "failed"
                             ELSE IF dryu.atz \/ dryu.btz THEN "digits"
                             ELSE "fast"]
    /\ UNCHANGED <<convVars, powerVars, logVars, toolVars, dbl>>

\* while a / 10 < c / 10, with the flags: one iteration, or the exit.
RyuRemoveDigitStep ==
    /\ dryu.pc = "digits"
    /\ IF BigLess(BigDivTen(dryu.a), BigDivTen(dryu.c))
       THEN dryu' = [dryu EXCEPT
                       !.atz = dryu.atz /\ BigModTen(dryu.a) = 0,
                       !.btz = dryu.btz /\ dryu.bi = 0,
                       !.bi = BigModTen(dryu.b),
                       !.a = BigDivTen(dryu.a),
                       !.b = BigDivTen(dryu.b),
                       !.c = BigDivTen(dryu.c),
                       !.e10 = dryu.e10 + 1]
       ELSE dryu' = [dryu EXCEPT !.pc = IF dryu.atz THEN "zeros" ELSE "round"]
    /\ UNCHANGED <<convVars, powerVars, logVars, toolVars, dbl>>

\* while a % 10 == 0: one iteration, or the exit.  With a = 0 an iteration
\* leaves a = 0, and the loop does not end.
RyuRemoveZeroStep ==
    /\ dryu.pc = "zeros"
    /\ IF dryu.a = <<0>>
       THEN dryu' = [dryu EXCEPT !.pc = "endless"]
       ELSE IF BigModTen(dryu.a) = 0
       THEN dryu' = [dryu EXCEPT
                       !.btz = dryu.btz /\ dryu.bi = 0,
                       !.bi = BigModTen(dryu.b),
                       !.a = BigDivTen(dryu.a),
                       !.b = BigDivTen(dryu.b),
                       !.c = BigDivTen(dryu.c),
                       !.e10 = dryu.e10 + 1]
       ELSE dryu' = [dryu EXCEPT !.pc = "round"]
    /\ UNCHANGED <<convVars, powerVars, logVars, toolVars, dbl>>

\* if (not roundDown and b < c) or (a == b and not atz): b += 1
DoubleRyuReturn(a, b, c, atz, roundDown) ==
    IF (~roundDown /\ BigLess(b, c)) \/ (a = b /\ ~atz)
    THEN BigAdd(b, <<1>>) ELSE b

\* roundDown = bi < 5 or (bi == 5 and btz and b % 2 == 0), and the return.
RyuRoundStep ==
    /\ dryu.pc = "round"
    /\ LET roundDown == \/ dryu.bi < 5
                        \/ (dryu.bi = 5 /\ dryu.btz /\ ~BigIsOdd(dryu.b))
       IN  dryu' = [dryu EXCEPT
                      !.roundDown = roundDown,
                      !.d = DoubleRyuReturn(dryu.a, dryu.b, dryu.c, dryu.atz,
                                            roundDown),
                      !.pc = "return"]
    /\ UNCHANGED <<convVars, powerVars, logVars, toolVars, dbl>>

\* The loop of the common case: one iteration, or the exit and the return.
RyuFastStep ==
    /\ dryu.pc = "fast"
    /\ IF BigLess(BigDivTen(dryu.a), BigDivTen(dryu.c))
       THEN dryu' = [dryu EXCEPT
                       !.roundDown = BigModTen(dryu.b) < 5,
                       !.a = BigDivTen(dryu.a),
                       !.b = BigDivTen(dryu.b),
                       !.c = BigDivTen(dryu.c),
                       !.e10 = dryu.e10 + 1]
       ELSE dryu' = [dryu EXCEPT
                       !.d = DoubleRyuReturn(dryu.a, dryu.b, dryu.c, dryu.atz,
                                             dryu.roundDown),
                       !.pc = "return"]
    /\ UNCHANGED <<convVars, powerVars, logVars, toolVars, dbl>>

NextDouble ==
    \/ ScaleDownStep
    \/ ScaleUpStep
    \/ ReducePrecisionStep
    \/ DivideAndRoundStep
    \/ BurgerDybvigInitStep
    \/ BurgerDybvigScaleStep
    \/ GenerateStep

\* A run of Dtoa or DtoaPow2 starts; the scaled conversions, the generators
\* and the test of the log functions are idle.
InitDouble ==
    /\ mode = "double"
    /\ flt = [f |-> 1, e |-> 0]
    /\ dec = [d |-> 1, k |-> 0]
    /\ done = {}
    /\ src = NoBinary
    /\ bd = NoDecimal
    /\ ryu = NoResult
    /\ adams = NoResult
    /\ back = NoBinary
    /\ again = NoDecimal
    /\ bin = NoBinary
    /\ table = CachedPow5Initial
    /\ pw = [k |-> 0, bits |-> 1]
    /\ powers = NoPowers
    /\ logExp = 0
    /\ pow2 = <<1>>
    /\ prevDigits = 1
    /\ dbl \in {DoubleStart(inp) : inp \in DoubleInputs}
    /\ dryu = RyuIdle
    /\ call = NoCall
    /\ ret = NoReturn
    /\ run = NoRun

SpecDouble == InitDouble /\ [][NextDouble]_vars



\* The floats on which DtoaRyu is run at the 53-bit format: the least and the
\* greatest normalized significand, their neighbours and the significand of
\* DtoaPow2 at every DtoaPow2Stride-th exponent, the least subnormal floats,
\* and floats that are small integers or multiples of a power of five, for
\* which Step 3 sets the flags of trailing zeros.
RyuSignificands ==
    {DoubleHiddenBit, BigAdd(DoubleHiddenBit, <<1>>),
     BigAdd(DoubleHiddenBit, <<2>>), DtoaPow2Significand,
     BigDec(DoubleOverflow)}

RyuInputs ==
    [f : RyuSignificands, e : DtoaPow2Exponents]
    \cup [f : {<<1>>, <<2>>, <<5>>, BigDec(DoubleHiddenBit)},
          e : {DoubleMinExponent}]
    \cup [f : {DoubleHiddenBit, BigAdd(DoubleHiddenBit, <<2>>),
               BigTimesPow2(BigTimesPow5(<<1>>, 22), 1)},
          e : {0 - 52, 0 - 51, 0, 2, 3, 21, 25}]

NextRyu ==
    \/ RyuStep2
    \/ RyuStep3
    \/ RyuPow5Step
    \/ RyuMulShiftStep
    \/ RyuStep4
    \/ RyuRemoveDigitStep
    \/ RyuRemoveZeroStep
    \/ RyuRoundStep
    \/ RyuFastStep

\* BinaryFromFraction has returned one of the floats of RyuInputs; the run
\* of DtoaRyu on it has not started.
InitRyu ==
    /\ mode = "ryu"
    /\ flt = [f |-> 1, e |-> 0]
    /\ dec = [d |-> 1, k |-> 0]
    /\ done = {}
    /\ src = NoBinary
    /\ bd = NoDecimal
    /\ ryu = NoResult
    /\ adams = NoResult
    /\ back = NoBinary
    /\ again = NoDecimal
    /\ bin = NoBinary
    /\ table = CachedPow5Initial
    /\ pw = [k |-> 0, bits |-> 1]
    /\ powers = NoPowers
    /\ logExp = 0
    /\ pow2 = <<1>>
    /\ prevDigits = 1
    /\ dbl \in {[DoubleIdle EXCEPT !.pc = "done", !.f = inp.f, !.e = inp.e] :
                    inp \in RyuInputs}
    /\ dryu = RyuIdle
    /\ call = NoCall
    /\ ret = NoReturn
    /\ run = NoRun

SpecRyu == InitRyu /\ [][NextRyu]_vars



\* The run has returned from BurgerDybvig.
DoubleDone == dbl.pc = "done"

\* The run is DtoaPow2(e, m), or Dtoa of the float m * 2**e.
DoubleRunOf(m, e) == dbl.inp = [m |-> m, e |-> e]

C12_AtMostSeventeenDigits ==
    /\ DoublePrecision = 53 /\ DoubleExponentBits = 11
    /\ Len(dbl.d) <= 17

\* C12 witness: a run has returned all 17 digits, those of 2^-1019, a value
\* that no 16 digits identify.
C12_Witness ==
    /\ DoubleDone
    /\ DoubleRunOf(<<1>>, -1019)
    /\ Len(dbl.d) = 17


---------------------------------------------------------------------------
(* The scaled bounds a and c of DtoaRyu and DtoaAdams                      *)

\* a < c - 1 and a <= c on the two-limb integers of DtoaAdams.
WideGap(a, c) == WideLess(WideInc(a), c)
WideLeq(a, c) == ~WideLess(c, a)

\* C21, as stated: in DtoaRyu and DtoaAdams a < c - 1 holds directly after
\* the conversion to the decimal scale and after every iteration of the
\* digit-removal loops.
C21_GapAtEveryStep ==
    /\ "ryu" \in done =>
        /\ ryu.a < ryu.c - 1
        /\ \A i \in DOMAIN ryu.steps : ryu.steps[i].a < ryu.steps[i].c - 1
    /\ "adams" \in done =>
        /\ WideGap(adams.a, adams.c)
        /\ \A i \in DOMAIN adams.steps :
              WideGap(adams.steps[i].a, adams.steps[i].c)

\* C21, as the code has it: a < c - 1 holds directly after the conversion
\* (the assertion never fails); after an iteration of the digit-removal
\* loops the bounds are only ordered, a <= c.
C21_GapAfterConversion ==
    /\ "ryu" \in done =>
        /\ ryu.asserts
        /\ ryu.a < ryu.c - 1
        /\ \A i \in DOMAIN ryu.steps : ryu.steps[i].a <= ryu.steps[i].c
    /\ "adams" \in done =>
        /\ adams.asserts
        /\ WideGap(adams.a, adams.c)
        /\ \A i \in DOMAIN adams.steps :
              WideLeq(adams.steps[i].a, adams.steps[i].c)

\* C21 witness: both printers have removed digits, and after an iteration
\* the bounds of DtoaRyu have met (a = c) while those of DtoaAdams are one
\* apart or closer.
C21_Witness ==
    /\ {"ryu", "adams"} \subseteq done
    /\ ryu.a < ryu.c - 1
    /\ \E i \in DOMAIN ryu.steps : ryu.steps[i].a = ryu.steps[i].c
    /\ \E i \in DOMAIN adams.steps :
          ~WideGap(adams.steps[i].a, adams.steps[i].c)

\* ---------------------------------------------------------------------------
\* The scaling of DtoaRyu at the 53-bit format against unbounded integers
\* ---------------------------------------------------------------------------

\* floor(x * 2^e2 / 10^e10), with the powers of two and of five that have a
\* negative exponent moved into the divisor.
ExactScaled(x, e2, e10) ==
    BigFloorDivMod(
        BigTimesPow2(BigTimesPow5(x, Max(0 - e10, 0)), Max(e2 - e10, 0)),
        BigTimesPow2(BigTimesPow5(<<1>>, Max(e10, 0)), Max(e10 - e2, 0))).q

\* The power of five that the table entry stands for is not a multiple of
\* the power of two that ComputePow5 divides by, or is a divisor that does
\* not divide a power of two: the entry is a truncated or a rounded-up value.
Pow5EntryInexact(e5) ==
    \/ e5 < 0
    \/ FloorLog2Pow5(e5) + 1 > DoubleCachedPow5Bits

\* C22: when MulPow5DivPow2 has returned in DtoaRyu at the 53-bit format,
\* a, b and c are floor(u * 2^e2 / 10^e10), floor(v * 2^e2 / 10^e10) and
\* floor(w * 2^e2 / 10^e10) of unbounded integers, for the e2 and e10 of
\* Step 3.
C22_ScalingExact ==
    dryu.pc = "step4" =>
        /\ dryu.a = ExactScaled(dryu.u, dryu.x.e2, dryu.x.e10)
        /\ dryu.b = ExactScaled(dryu.v, dryu.x.e2, dryu.x.e10)
        /\ dryu.c = ExactScaled(dryu.w, dryu.x.e2, dryu.x.e10)

\* MulPow5DivPow2 has returned for a power of five whose table entry is not
\* the exact power, and the product with it was shifted by more than 100 bits.
C22_Witness ==
    /\ dryu.pc = "step4"
    /\ Pow5EntryInexact(dryu.x.e5)
    /\ dryu.x.j > 100
    /\ dryu.a = ExactScaled(dryu.u, dryu.x.e2, dryu.x.e10)

\* ---------------------------------------------------------------------------
\* Calls of the helper functions of the scripts
\* ---------------------------------------------------------------------------

\* The formats of the calls of PrintTableSize.
TableSizeFormats == {<<5, 10>>, <<8, 23>>, <<11, 52>>, <<15, 63>>}

\* The integers of Step 3 of DtoaRyu are computed for one binary exponent of
\* the 53-bit format.
CallRyuExponents ==
    /\ call = NoCall
    /\ \E e2 \in DoubleMinExponent .. DoubleMaxExponent :
          /\ call' = [fn |-> "RyuExponents", args |-> <<e2>>]
          /\ ret' = RyuExponents(e2)
    /\ UNCHANGED <<convVars, powerVars, logVars, dbl, dryu, run>>

\* PrintTableSize calls ComputeTableSize.
CallComputeTableSize ==
    /\ call = NoCall
    /\ \E fmt \in TableSizeFormats :
          /\ call' = [fn |-> "ComputeTableSize", args |-> fmt]
          /\ ret' = ComputeTableSize(fmt[1], fmt[2])
    /\ UNCHANGED <<convVars, powerVars, logVars, dbl, dryu, run>>

\* grisu/compute_powers.py: DivUp, and CeilLog10Pow2 with its asserted
\* domain.  FloorLog10Pow2 and FloorLog2Pow10 of that script are the
\* expressions of the operators of the same names above.
GrisuDivUp(num, den) == (num + (den - 1)) \div den

GrisuLogMaxExp == 2620

\* The shift without the term that rounds up.
GrisuLog10Pow2RoundedDown(e) == (e * 315653) \div 2^20

\* (e * 315653 + (2**20 - 1)) >> 20
GrisuCeilLog10Pow2(e) == (e * 315653 + (2^20 - 1)) \div 2^20

GrisuLogInRange(e) == e >= 0 - GrisuLogMaxExp /\ e <= GrisuLogMaxExp

\* ComputeBinaryExponentRange(q, p, exponent_bits), with
\* bias = 2**(exponent_bits - 1) - 1
ComputeBinaryExponentRange(q, p, exponent_bits) ==
    [min_exp |-> (1 - (2^(exponent_bits - 1) - 1))
                    - (p - 1) - (p - 1) - (q - p),
     max_exp |-> (2^exponent_bits - 2 - (2^(exponent_bits - 1) - 1))
                    - (p - 1) - (q - p),
     asserts |-> 0 <= p /\ p + 3 <= q]

\* The constants that PrintGrisuPowersForExponentRange prints, from the
\* exponent range, k_del, k_min and k_max.
GrisuConstantsOf(alpha, gamma, q, rng, k_del, k_min, k_max) ==
    [alpha |-> alpha, gamma |-> gamma, q |-> q,
     e_min |-> rng.min_exp, e_max |-> rng.max_exp,
     k_min |-> k_min, k_max |-> k_max,
     size |-> GrisuDivUp(k_max - k_min, k_del) + 1,
     minDecExp |-> k_min,
     maxDecExp |-> k_min + k_del * (GrisuDivUp(k_max - k_min, k_del) + 1 - 1),
     step |-> k_del,
     asserts |-> /\ alpha + 3 <= gamma
                 /\ rng.asserts
                 /\ GrisuLogInRange(gamma - alpha)
                 /\ k_del >= 1
                 /\ GrisuLogInRange(alpha - rng.max_exp - 1)
                 /\ GrisuLogInRange(alpha - rng.min_exp - 1)]

GrisuConstantsIn(alpha, gamma, q, rng) ==
    GrisuConstantsOf(alpha, gamma, q, rng,
                     Max(1, FloorLog10Pow2(gamma - alpha)),
                     GrisuCeilLog10Pow2(alpha - rng.max_exp - 1),
                     GrisuCeilLog10Pow2(alpha - rng.min_exp - 1))

GrisuConstants(alpha, gamma, q, p, exponent_bits) ==
    GrisuConstantsIn(alpha, gamma, q,
                     ComputeBinaryExponentRange(q, p, exponent_bits))

\* The function GetCachedPowerForBinaryExponent(e) that the script prints,
\* with the constants c.  A GRISU_ASSERT that fails ends the call: failed
\* names it, and the values behind it are not computed.
CachedPowerOf(c, e, k, index, k_cached, e_cached) ==
    [k |-> k, index |-> index, k_cached |-> k_cached, e_cached |-> e_cached,
     failed |->
        IF ~(e >= c.e_min) THEN "e >= e_min"
        ELSE IF ~(e <= c.e_max) THEN "e <= e_max"
        ELSE IF ~(k >= c.minDecExp - (c.step - 1)) THEN "k >= min"
        ELSE IF ~(k <= c.maxDecExp) THEN "k <= max"
        ELSE IF ~(index < c.size) THEN "index < size"
        ELSE IF ~(c.alpha <= e_cached + e + c.q) THEN "alpha"
        ELSE IF ~(c.gamma >= e_cached + e + c.q) THEN "gamma"
        ELSE "none"]

CachedPowerAt(c, e, k, index) ==
    CachedPowerOf(c, e, k, index, c.minDecExp + index * c.step,
                  FloorLog2Pow10(c.minDecExp + index * c.step) + 1 - c.q)

GetCachedPowerForBinaryExponent(c, e) ==
    CachedPowerAt(c, e, GrisuCeilLog10Pow2(c.alpha - e - 1),
                  (GrisuCeilLog10Pow2(c.alpha - e - 1)
                      - (c.minDecExp - (c.step - 1))) \div c.step)

\* The calls of PrintGrisuPowersForExponentRange that the script lists:
\* alpha, gamma, q, p, exponent_bits.
GrisuCalls ==
    {<<-60, -32, 64, 53, 11>>, <<-59, -32, 64, 53, 11>>,
     <<-56, -42, 64, 53, 11>>, <<-3, 0, 64, 53, 11>>,
     <<-28, 0, 64, 53, 11>>, <<-53, -46, 64, 53, 11>>,
     <<-50, -36, 64, 53, 11>>, <<-50, -41, 64, 53, 11>>,
     <<-50, -44, 64, 53, 11>>, <<-50, -47, 64, 53, 11>>,
     <<0, 3, 32, 24, 8>>, <<0, 3, 64, 53, 11>>, <<-25, -18, 32, 24, 8>>}

\* PrintGrisuPowersForExponentRange is run, and the function it prints is
\* called with a binary exponent of its range.
CallGetCachedPowerWith(g, c) ==
    \E e \in c.e_min .. c.e_max :
        /\ call' = [fn |-> "GetCachedPowerForBinaryExponent",
                    args |-> <<g, e>>]
        /\ ret' = [fn |-> "GetCachedPowerForBinaryExponent",
                   constants |-> c,
                   e |-> e,
                   power |-> GetCachedPowerForBinaryExponent(c, e)]

CallGetCachedPower ==
    /\ call = NoCall
    /\ \E g \in GrisuCalls :
          CallGetCachedPowerWith(g, GrisuConstants(g[1], g[2], g[3], g[4], g[5]))
    /\ UNCHANGED <<convVars, powerVars, logVars, dbl, dryu, run>>

\* mod.py.  The arguments of ExtendedGCD and ModularInverse are taken from
\* 0 .. MaxGcdArg, the widths of PrintTable from the multiples of four up to
\* MaxTableBits.
MaxGcdArg == 40
MaxTableBits == 12

\* The return statement with x and y of the recursive call not exchanged.
ExtendedGCDReturnUnswapped(r, a, b) ==
    <<r[1], r[2] - (b \div a) * r[3], r[3]>>

RECURSIVE ExtendedGCDUnswapped(_, _)
ExtendedGCDUnswapped(a, b) ==
    IF a = 0
    THEN <<b, 0, 1>>
    ELSE ExtendedGCDReturnUnswapped(ExtendedGCDUnswapped(b % a, a), a, b)

\* g, y, x = ExtendedGCD(b % a, a); return g, x - (b // a) * y, y
ExtendedGCDReturn(r, a, b) ==
    <<r[1], r[3] - (b \div a) * r[2], r[2]>>

RECURSIVE ExtendedGCD(_, _)
ExtendedGCD(a, b) ==
    IF a = 0
    THEN <<b, 0, 1>>
    ELSE ExtendedGCDReturn(ExtendedGCD(b % a, a), a, b)

\* ModularInverse(a, m): asserts names the assertion that fails, if any.
ModularInverseOf(r, a, m) ==
    [v |-> r[2] % m,
     g |-> r[1],
     asserts |-> a >= 0 /\ m >= 1 /\ r[1] = 1]

ModularInverse(a, m) == ModularInverseOf(ExtendedGCD(a, m), a, m)

\* PrintTable(base, max_exp, bits): the rows of the loop from e on, each
\* with a = base**e, the inverse m, and the assertion
\* (a * m) % 2**bits == 1.
PrintTableRow(base, e, bits, inv) ==
    [e |-> e, a |-> base^e, m |-> inv.v,
     asserts |-> inv.asserts /\ (base^e * inv.v) % 2^bits = 1]

RECURSIVE PrintTableFrom(_, _, _)
PrintTableFrom(base, e, bits) ==
    IF base^e >= 2^bits
    THEN <<>>
    ELSE <<PrintTableRow(base, e, bits, ModularInverse(base^e, 2^bits))>>
         \o PrintTableFrom(base, e + 1, bits)

PrintTable(base, bits) ==
    [rows |-> PrintTableFrom(base, 1, bits), asserts |-> bits % 4 = 0]

TableBases == {3, 5, 7}
TableBits == {bits \in 4 .. MaxTableBits : bits % 4 = 0}

CallExtendedGCD ==
    /\ call = NoCall
    /\ \E a \in 0 .. MaxGcdArg, b \in 0 .. MaxGcdArg :
          /\ call' = [fn |-> "ExtendedGCD", args |-> <<a, b>>]
          /\ ret' = [fn |-> "ExtendedGCD", r |-> ExtendedGCD(a, b)]
    /\ UNCHANGED <<convVars, powerVars, logVars, dbl, dryu, run>>

CallModularInverse ==
    /\ call = NoCall
    /\ \E a \in 0 .. MaxGcdArg, m \in 1 .. MaxGcdArg :
          /\ call' = [fn |-> "ModularInverse", args |-> <<a, m>>]
          /\ ret' = [fn |-> "ModularInverse", r |-> ModularInverse(a, m)]
    /\ UNCHANGED <<convVars, powerVars, logVars, dbl, dryu, run>>

CallPrintTable ==
    /\ call = NoCall
    /\ \E base \in TableBases, bits \in TableBits :
          /\ call' = [fn |-> "PrintTable", args |-> <<base, bits>>]
          /\ ret' = [fn |-> "PrintTable", r |-> PrintTable(base, bits)]
    /\ UNCHANGED <<convVars, powerVars, logVars, dbl, dryu, run>>

\* ryu/euclid_min_max.py.  multiplier, modulo and maximum are taken from
\* 1 .. MaxEuclidArg.
MaxEuclidArg == 12

\* fractions.gcd(a, b): while b: a, b = b, a % b
RECURSIVE Gcd(_, _)
Gcd(a, b) == IF b = 0 THEN a ELSE Gcd(b, a % b)


\* s = 1; t = 0; u = 0; v = 1, with a and b
EuclidStart(a, b) ==
    [a |-> a, b |-> b, s |-> 1, t |-> 0, u |-> 0, v |-> 1, old |-> 0]

\* EuclidMin, body of 'while b >= a'
EuclidMinBodyB(st) ==
    [st EXCEPT !.b = st.b - st.a, !.u = st.u - st.s, !.v = st.v - st.t]

\* EuclidMin, body of 'while a >= b'; old is old_a
EuclidMinBodyA(st) ==
    [st EXCEPT !.old = st.a, !.a = st.a - st.b,
               !.s = st.s - st.u, !.t = st.t - st.v]

\* EuclidMin from the head of its inner loop 'while b >= a' (inB) or
\* 'while a >= b', with the state st of the iteration before.
RECURSIVE EuclidMinLoop(_, _, _, _)
EuclidMinLoop(inB, st, c, maximum) ==
    IF inB
    THEN IF st.b >= st.a
         THEN IF 0 - EuclidMinBodyB(st).u >= maximum
              THEN EuclidMinBodyB(st).a * c
              ELSE EuclidMinLoop(TRUE, EuclidMinBodyB(st), c, maximum)
         ELSE IF st.b = 0
              THEN 0
              ELSE EuclidMinLoop(FALSE, st, c, maximum)
    ELSE IF st.a >= st.b
         THEN IF EuclidMinBodyA(st).s >= maximum
              THEN IF EuclidMinBodyA(st).s > maximum
                   THEN EuclidMinBodyA(st).old * c
                   ELSE EuclidMinBodyA(st).a * c
              ELSE EuclidMinLoop(FALSE, EuclidMinBodyA(st), c, maximum)
         ELSE IF st.a = 0
              THEN 0
              ELSE EuclidMinLoop(TRUE, st, c, maximum)

\* c = gcd(multiplier, modulo); b = modulo // c; a = (multiplier // c) % b
EuclidMinFrom(c, b, modulo, multiplier, maximum) ==
    IF maximum >= b
    THEN 0
    ELSE EuclidMinLoop(TRUE, EuclidStart((multiplier \div c) % b, b),
                       c, maximum)

EuclidMin(multiplier, modulo, maximum) ==
    EuclidMinFrom(Gcd(multiplier, modulo),
                  modulo \div Gcd(multiplier, modulo),
                  modulo, multiplier, maximum)

\* EuclidMax, 'while b >= a': q = b // a;
\* q = min(q, (maximum - (-u)) // s - 1); q = max(q, 1)
EuclidMaxQuotientB(st, maximum) ==
    Max(Min(st.b \div st.a, (maximum - (0 - st.u)) \div st.s - 1), 1)

\* EuclidMax, body of 'while b >= a' with the quotient q; old is old_b
EuclidMaxBodyBWith(st, q) ==
    [st EXCEPT !.old = st.b, !.b = st.b - st.a * q,
               !.u = st.u - st.s * q, !.v = st.v - st.t * q]

EuclidMaxBodyB(st, maximum) ==
    EuclidMaxBodyBWith(st, EuclidMaxQuotientB(st, maximum))

\* EuclidMax, 'while a >= b': q = 1;
\* if u != 0: q = min(q, (maximum - s) // (-u + 1)); q = max(q, 1)
EuclidMaxQuotientA(st, maximum) ==
    Max(IF st.u # 0
        THEN Min(1, (maximum - st.s) \div (0 - st.u + 1))
        ELSE 1,
        1)

EuclidMaxBodyAWith(st, q) ==
    [st EXCEPT !.a = st.a - st.b * q,
               !.s = st.s - st.u * q, !.t = st.t - st.v * q]

EuclidMaxBodyA(st, maximum) ==
    EuclidMaxBodyAWith(st, EuclidMaxQuotientA(st, maximum))

RECURSIVE EuclidMaxLoop(_, _, _, _, _)
EuclidMaxLoop(inB, st, c, modulo, maximum) ==
    IF inB
    THEN IF st.b >= st.a
         THEN IF 0 - EuclidMaxBodyB(st, maximum).u >= maximum
              THEN IF 0 - EuclidMaxBodyB(st, maximum).u > maximum
                   THEN modulo - EuclidMaxBodyB(st, maximum).old * c
                   ELSE modulo - EuclidMaxBodyB(st, maximum).b * c
              ELSE EuclidMaxLoop(TRUE, EuclidMaxBodyB(st, maximum),
                                 c, modulo, maximum)
         ELSE IF st.b = 0
              THEN modulo - c
              ELSE EuclidMaxLoop(FALSE, st, c, modulo, maximum)
    ELSE IF st.a >= st.b
         THEN IF EuclidMaxBodyA(st, maximum).s >= maximum
              THEN modulo - EuclidMaxBodyA(st, maximum).b * c
              ELSE EuclidMaxLoop(FALSE, EuclidMaxBodyA(st, maximum),
                                 c, modulo, maximum)
         ELSE IF st.a = 0
              THEN modulo - c
              ELSE EuclidMaxLoop(TRUE, st, c, modulo, maximum)

EuclidMaxFrom(c, b, modulo, multiplier, maximum) ==
    IF maximum >= b
    THEN modulo - c
    ELSE EuclidMaxLoop(TRUE, EuclidStart((multiplier \div c) % b, b),
                       c, modulo, maximum)

\* The value of the early return, whatever maximum is.
EuclidMaxOfAllResidues(multiplier, modulo, maximum) ==
    modulo - Gcd(multiplier, modulo)

EuclidMax(multiplier, modulo, maximum) ==
    EuclidMaxFrom(Gcd(multiplier, modulo),
                  modulo \div Gcd(multiplier, modulo),
                  modulo, multiplier, maximum)

EuclidArgs == (1 .. MaxEuclidArg) \X (1 .. MaxEuclidArg) \X (1 .. MaxEuclidArg)

CallEuclidMin ==
    /\ call = NoCall
    /\ \E x \in EuclidArgs :
          /\ call' = [fn |-> "EuclidMin", args |-> x]
          /\ ret' = [fn |-> "EuclidMin", r |-> EuclidMin(x[1], x[2], x[3])]
    /\ UNCHANGED <<convVars, powerVars, logVars, dbl, dryu, run>>

CallEuclidMax ==
    /\ call = NoCall
    /\ \E x \in EuclidArgs :
          /\ call' = [fn |-> "EuclidMax", args |-> x]
          /\ ret' = [fn |-> "EuclidMax", r |-> EuclidMax(x[1], x[2], x[3])]
    /\ UNCHANGED <<convVars, powerVars, logVars, dbl, dryu, run>>

NextTools ==
    \/ CallRyuExponents
    \/ CallComputeTableSize
    \/ CallGetCachedPower
    \/ CallExtendedGCD
    \/ CallModularInverse
    \/ CallPrintTable
    \/ CallEuclidMin
    \/ CallEuclidMax




\* No helper function has been called; the conversions, the generators and
\* the test of the log functions are idle.
InitTools ==
    /\ mode = "tools"
    /\ flt = [f |-> 1, e |-> 0]
    /\ dec = [d |-> 1, k |-> 0]
    /\ done = {}
    /\ src = NoBinary
    /\ bd = NoDecimal
    /\ ryu = NoResult
    /\ adams = NoResult
    /\ back = NoBinary
    /\ again = NoDecimal
    /\ bin = NoBinary
    /\ table = CachedPow5Initial
    /\ pw = [k |-> 0, bits |-> 1]
    /\ powers = NoPowers
    /\ logExp = 0
    /\ pow2 = <<1>>
    /\ prevDigits = 1
    /\ dbl = DoubleIdle
    /\ dryu = RyuIdle
    /\ call = NoCall
    /\ ret = NoReturn
    /\ run = NoRun

SpecTools == InitTools /\ [][NextTools]_vars

\* C23: for every binary exponent e2 of the 53-bit format, the integers that
\* DtoaRyu computes in Step 3 meet every precondition: the arguments of
\* FloorLog10Pow2, FloorLog10Pow5 and FloorLog2Pow5 are in the asserted
\* domains, the exponent -e10 of the power of five is in
\* [CachedPow5MinDecExp, CachedPow5MaxDecExp], so that the index into the
\* table is in bounds, and the shift j handed to MulShift is not negative;
\* and ComputeTableSize(11, 52) returns the same two bounds.
C23_PreconditionsHold ==
    /\ call.fn = "RyuExponents" =>
          /\ ret.logInRange
          /\ ret.pow5LogInRange
          /\ ret.e5InRange
          /\ ret.e5 - CachedPow5MinDecExp >= 0
          /\ ret.e5 - CachedPow5MinDecExp
                 <= CachedPow5MaxDecExp - CachedPow5MinDecExp
          /\ ret.jNonNegative
    /\ (call.fn = "ComputeTableSize"
        /\ call.args = <<DoubleExponentBits, DoublePrecision - 1>>) =>
          /\ ret.asserts
          /\ ret.min_pow = CachedPow5MinDecExp
          /\ ret.max_pow = CachedPow5MaxDecExp

\* The integers of Step 3 were computed for the least binary exponent, and
\* the power of five is the last entry of the table.
C23_Witness ==
    /\ call.fn = "RyuExponents"
    /\ call.args = <<DoubleMinExponent>>
    /\ ret.e5 = CachedPow5MaxDecExp
    /\ ret.jNonNegative

\* ---------------------------------------------------------------------------
\* The scaling and the digits of BurgerDybvig
\* ---------------------------------------------------------------------------

\* C24: when BurgerDybvig has scaled a float, k is the estimate
\* CeilLog10Pow2(e + p - 1) or one more, and r, s and m+ satisfy
\* s/10 <= r + m+ < s if the bounds are accepted (f even) and
\* s/10 < r + m+ <= s if they are not: the two assertions after the fixup
\* hold.
C24_ScaledAfterOneFixup ==
    "bd" \in done =>
        /\ bd.scale.asserts
        /\ bd.scale.k0 = CeilLog10Pow2(src.e + (EffectivePrecision(src.f) - 1))
        /\ bd.scale.k \in {bd.scale.k0, bd.scale.k0 + 1}
        /\ IF src.f % 2 = 0
           THEN /\ bd.scale.s <= 10 * (bd.scale.r + bd.scale.mp)
                /\ bd.scale.r + bd.scale.mp < bd.scale.s
           ELSE /\ bd.scale.s < 10 * (bd.scale.r + bd.scale.mp)
                /\ bd.scale.r + bd.scale.mp <= bd.scale.s

\* BurgerDybvig has scaled a float with an odd significand whose estimate
\* was one too small: the fixup step ran, and the assertions held after it.
C24_Witness ==
    /\ "bd" \in done
    /\ src.f % 2 = 1
    /\ bd.scale.k = bd.scale.k0 + 1
    /\ bd.scale.r + bd.scale.mp < bd.scale.s
    /\ bd.scale.asserts

\* C25: when BurgerDybvig has returned, every iteration of the generation
\* loop started with r > 0, computed a quotient q in 0 .. 9 and appended a
\* digit in 0 .. 9, also where the digit is the incremented quotient, and
\* the first digit is not zero.
C25_DigitsInRange ==
    "bd" \in done =>
        /\ Len(bd.steps) >= 1
        /\ Len(bd.digits) = Len(bd.steps)
        /\ \A i \in 1 .. Len(bd.steps) :
              /\ bd.steps[i].r > 0
              /\ bd.steps[i].q \in 0 .. 9
              /\ bd.steps[i].digit \in 0 .. 9
              /\ bd.digits[i] = bd.steps[i].digit
        /\ bd.digits[1] # 0

\* BurgerDybvig has returned more than one digit, and the last digit is the
\* quotient 8 incremented to 9.
C25_Witness ==
    /\ "bd" \in done
    /\ Len(bd.steps) >= 2
    /\ bd.steps[1].r > 0
    /\ bd.steps[Len(bd.steps)].q = 8
    /\ bd.digits[Len(bd.digits)] = 9

\* ---------------------------------------------------------------------------
\* The loops of the conversions, iteration by iteration
\* ---------------------------------------------------------------------------

\* A loop is followed for at most MaxIterations iterations.
MaxIterations == 64

\* BinaryFromFraction(num, den) after its two assertions: e = 0,
\* p = PRECISION, before the first scaling loop.
FractionStart(fr) ==
    [pc |-> "scale_down", n |-> 0, accept |-> FALSE,
     t |-> [num |-> fr.num, den |-> fr.den, e |-> 0, p |-> PRECISION]]

\* BurgerDybvig(f, e) after Scale, before the generation loop.
GenerateStartOf(sc, acceptBounds) ==
    [pc |-> "generate", n |-> 0, accept |-> acceptBounds,
     t |-> [r |-> sc.r, s |-> sc.s, mp |-> sc.mp, mm |-> sc.mm,
            d |-> <<>>, k |-> sc.k]]

GenerateStart(f, e) ==
    GenerateStartOf(BurgerDybvigScale(f, e, f % 2 = 0), f % 2 = 0)

\* DtoaRyu(m2, e2) before the loop of the general or of the common case.
RyuLoopStartOf(st) ==
    [pc |-> IF st.general THEN "ryu_digits" ELSE "ryu_fast",
     n |-> 0, accept |-> st.atz, t |-> st.t]

RyuLoopStart(m2, e2) == RyuLoopStartOf(RyuStart(m2, e2))

\* DtoaAdams(m2, e2) before its first loop.
AdamsLoopStartOf(st) ==
    [pc |-> "adams_digits", n |-> 0, accept |-> st.acceptSmaller, t |-> st.t]

AdamsLoopStart(m2, e2) == AdamsLoopStartOf(AdamsStart(m2, e2))

\* The fractions with num > 0 and den > 0 that the parser and DtoaPow2 hand
\* to BinaryFromFraction, and the floats handed to the three printers.
LoopFractions ==
    {DecimalFraction(x.d, x.k) : x \in {y \in DecimalInputs : y.d > 0}}
    \cup {Pow2Fraction(x.e, x.f) : x \in CanonicalFloats}

LoopStart(r) ==
    \/ r \in {FractionStart(fr) : fr \in LoopFractions}
    \/ r \in {GenerateStart(x.f, x.e) : x \in CanonicalFloats}
    \/ r \in {RyuLoopStart(x.f, x.e) : x \in CanonicalFloats}
    \/ r \in {AdamsLoopStart(x.f, x.e) : x \in CanonicalFloats}

\* while num >= 2**p * den: den *= 2; e += 1
ScaleDownIteration ==
    /\ run.pc = "scale_down"
    /\ run.n < MaxIterations
    /\ IF ScaleDownGuard(run.t.num, run.t.den, run.t.p)
       THEN run' = [run EXCEPT !.n = run.n + 1,
                               !.t.den = run.t.den * 2,
                               !.t.e = run.t.e + 1]
       ELSE run' = [run EXCEPT !.pc = "scale_up", !.n = 0]
    /\ UNCHANGED <<convVars, powerVars, logVars, dbl, dryu, call, ret>>

\* while num < 2**(p - 1) * den: num *= 2; e -= 1
ScaleUpIteration ==
    /\ run.pc = "scale_up"
    /\ run.n < MaxIterations
    /\ IF ScaleUpGuard(run.t.num, run.t.den, run.t.p)
       THEN run' = [run EXCEPT !.n = run.n + 1,
                               !.t.num = run.t.num * 2,
                               !.t.e = run.t.e - 1]
       ELSE run' = [run EXCEPT !.pc = "reduce", !.n = 0]
    /\ UNCHANGED <<convVars, powerVars, logVars, dbl, dryu, call, ret>>

\* while e < MIN_EXPONENT and p > 1: den *= 2; e += 1; p -= 1
ReducePrecisionIteration ==
    /\ run.pc = "reduce"
    /\ run.n < MaxIterations
    /\ IF ReduceGuard(run.t.e, run.t.p)
       THEN run' = [run EXCEPT !.n = run.n + 1,
                               !.t.den = run.t.den * 2,
                               !.t.e = run.t.e + 1,
                               !.t.p = run.t.p - 1]
       ELSE run' = [run EXCEPT !.pc = "divide", !.n = 0]
    /\ UNCHANGED <<convVars, powerVars, logVars, dbl, dryu, call, ret>>

\* Divide and round, and return f, e, p, isExact.
DivideAndReturn ==
    /\ run.pc = "divide"
    /\ run' = [run EXCEPT
                 !.pc = IF DivideAndRound(run.t.num, run.t.den, run.t.e,
                                          run.t.p).asserts
                        THEN "returned" ELSE "failed",
                 !.t = DivideAndRound(run.t.num, run.t.den, run.t.e, run.t.p)]
    /\ UNCHANGED <<convVars, powerVars, logVars, dbl, dryu, call, ret>>

\* One iteration of the generation loop of BurgerDybvig.
GenerateDigitOf(it) ==
    /\ run' = [run EXCEPT
                 !.n = run.n + 1,
                 !.pc = IF ~it.ok THEN "failed"
                        ELSE IF it.last THEN "returned" ELSE "generate",
                 !.t.r = it.r, !.t.mp = it.mp, !.t.mm = it.mm,
                 !.t.d = Append(run.t.d, it.digit),
                 !.t.k = run.t.k - 1]
    /\ UNCHANGED <<convVars, powerVars, logVars, dbl, dryu, call, ret>>

GenerateDigit ==
    /\ run.pc = "generate"
    /\ run.n < MaxIterations
    /\ GenerateDigitOf(GenerateIteration(run.t.r, run.t.s, run.t.mp,
                                         run.t.mm, run.accept))

\* DtoaRyu, while a / 10 < c / 10 with the flags; then, if atz, the loop of
\* trailing zeros.
RyuDigitIteration ==
    /\ run.pc = "ryu_digits"
    /\ run.n < MaxIterations
    /\ IF RyuRemoveDigitsGuard(run.t)
       THEN run' = [run EXCEPT !.n = run.n + 1,
                               !.t = RyuRemoveDigitsBody(run.t)]
       ELSE run' = [run EXCEPT !.n = 0,
                               !.pc = IF run.t.atz THEN "ryu_zeros"
                                      ELSE "returned"]
    /\ UNCHANGED <<convVars, powerVars, logVars, dbl, dryu, call, ret>>

\* DtoaRyu, while a % 10 == 0
RyuZeroIteration ==
    /\ run.pc = "ryu_zeros"
    /\ run.n < MaxIterations
    /\ IF RyuRemoveZerosGuard(run.t)
       THEN run' = [run EXCEPT !.n = run.n + 1,
                               !.t = RyuRemoveZerosBody(run.t)]
       ELSE run' = [run EXCEPT !.n = 0, !.pc = "returned"]
    /\ UNCHANGED <<convVars, powerVars, logVars, dbl, dryu, call, ret>>

\* DtoaRyu, while a / 10 < c / 10 of the common case
RyuFastIteration ==
    /\ run.pc = "ryu_fast"
    /\ run.n < MaxIterations
    /\ IF RyuRemoveDigitsFastGuard(run.t)
       THEN run' = [run EXCEPT !.n = run.n + 1,
                               !.t = RyuRemoveDigitsFastBody(run.t)]
       ELSE run' = [run EXCEPT !.n = 0, !.pc = "returned"]
    /\ UNCHANGED <<convVars, powerVars, logVars, dbl, dryu, call, ret>>

\* DtoaAdams, while a / 10 < c / 10; then, if acceptSmaller and atz, the
\* loop of trailing zeros.
AdamsDigitIteration ==
    /\ run.pc = "adams_digits"
    /\ run.n < MaxIterations
    /\ IF AdamsRemoveDigitsGuard(run.t)
       THEN run' = [run EXCEPT !.n = run.n + 1,
                               !.t = AdamsRemoveDigitsBody(run.t)]
       ELSE run' = [run EXCEPT !.n = 0,
                               !.pc = IF run.accept /\ run.t.atz
                                      THEN "adams_zeros" ELSE "returned"]
    /\ UNCHANGED <<convVars, powerVars, logVars, dbl, dryu, call, ret>>

\* DtoaAdams, while a % 10 == 0
AdamsZeroIteration ==
    /\ run.pc = "adams_zeros"
    /\ run.n < MaxIterations
    /\ IF AdamsRemoveZerosGuard(run.t)
       THEN run' = [run EXCEPT !.n = run.n + 1,
                               !.t = AdamsRemoveZerosBody(run.t)]
       ELSE run' = [run EXCEPT !.n = 0, !.pc = "returned"]
    /\ UNCHANGED <<convVars, powerVars, logVars, dbl, dryu, call, ret>>

NextLoops ==
    \/ ScaleDownIteration
    \/ ScaleUpIteration
    \/ ReducePrecisionIteration
    \/ DivideAndReturn
    \/ GenerateDigit
    \/ RyuDigitIteration
    \/ RyuZeroIteration
    \/ RyuFastIteration
    \/ AdamsDigitIteration
    \/ AdamsZeroIteration

\* A conversion is at the first of its loops.
InitLoops ==
    /\ mode = "loops"
    /\ flt = [f |-> 1, e |-> 0]
    /\ dec = [d |-> 1, k |-> 0]
    /\ done = {}
    /\ src = NoBinary
    /\ bd = NoDecimal
    /\ ryu = NoResult
    /\ adams = NoResult
    /\ back = NoBinary
    /\ again = NoDecimal
    /\ bin = NoBinary
    /\ table = CachedPow5Initial
    /\ pw = [k |-> 0, bits |-> 1]
    /\ powers = NoPowers
    /\ logExp = 0
    /\ pow2 = <<1>>
    /\ prevDigits = 1
    /\ dbl = DoubleIdle
    /\ dryu = RyuIdle
    /\ call = NoCall
    /\ ret = NoReturn
    /\ LoopStart(run)

\* The interpreter does not stop in the middle of a conversion: a step
\* that can be taken is taken at some time.
SpecLoops == InitLoops /\ [][NextLoops]_vars /\ WF_vars(NextLoops)

\* C26: every loop of the conversions finishes: the two scaling loops and
\* the loop that reduces the precision of a subnormal result in
\* BinaryFromFraction, for every fraction with num > 0 and den > 0, and the
\* generation loop of BurgerDybvig and the digit loops of DtoaRyu and
\* DtoaAdams, for every float; the loops 'while a % 10 == 0' are entered
\* with a > 0 only.
C26_Terminates ==
    /\ <>(run.pc = "returned")
    /\ [](run.pc = "ryu_zeros" => run.t.a > 0)
    /\ [](run.pc = "adams_zeros" => WideValue(run.t.a) > 0)

\* DtoaRyu is in its loop of trailing zeros with a > 0 and a % 10 = 0: an
\* iteration of the loop follows.
C26_Witness ==
    /\ run.pc = "ryu_zeros"
    /\ run.t.a > 0
    /\ RyuRemoveZerosGuard(run.t)

\* ---------------------------------------------------------------------------
\* The overflow of the significand in BinaryFromFraction
\* ---------------------------------------------------------------------------

\* num, den, e and p of BinaryFromFraction(num, den) after its three loops,
\* before 'f, r = divmod(num, den)'.
ScaledFractionOf(s2, s3) ==
    [num |-> s2.num, den |-> s3.den, e |-> s3.e, p |-> s3.p]

ScaledFraction(num, den) ==
    ScaledFractionOf(
        ScaleUp(ScaleDown(num, den, 0, PRECISION).num,
                ScaleDown(num, den, 0, PRECISION).den,
                ScaleDown(num, den, 0, PRECISION).e, PRECISION),
        ReducePrecision(ScaleDown(num, den, 0, PRECISION).den,
                        ScaleUp(ScaleDown(num, den, 0, PRECISION).num,
                                ScaleDown(num, den, 0, PRECISION).den,
                                ScaleDown(num, den, 0, PRECISION).e,
                                PRECISION).e,
                        PRECISION))

\* The fraction of the decimal that has been parsed, before the division.
ParsedFraction ==
    ScaledFraction(DecimalFraction(dec.d, dec.k).num,
                   DecimalFraction(dec.d, dec.k).den)

\* 'f += 1' has been executed: the quotient bin.q was rounded up.
Incremented(sf) ==
    /\ ~IsExact(sf.num % sf.den)
    /\ RoundUp(bin.q, sf.num % sf.den, sf.den)

\* The result of the parse against the fraction sf that was divided.
CarryRenormalisedFor(sf) ==
    /\ (Incremented(sf) /\ bin.q + 1 = 2^PRECISION =>
            /\ sf.p = PRECISION
            /\ bin.f = 2^(PRECISION - 1)
            /\ bin.e = sf.e + 1)
    /\ (Incremented(sf) /\ bin.q + 1 = 2^sf.p /\ sf.p < PRECISION =>
            /\ bin.f = 2^sf.p
            /\ bin.e = sf.e)
    /\ (Incremented(sf) => bin.f * 2^(bin.e - sf.e) = bin.q + 1)
    /\ bin.e >= sf.e
    /\ bin.f < 2^PRECISION

CarryOutOfPrecision(sf) == Incremented(sf) /\ bin.q + 1 = 2^sf.p

CachedPowerReturned == call.fn = "GetCachedPowerForBinaryExponent"

\* C28: with the constants printed by PrintGrisuPowersForExponentRange(alpha,
\* gamma, q, p, exponent_bits), alpha + 3 <= gamma, and a binary exponent e
\* of the range of ComputeBinaryExponentRange, k = CeilLog10Pow2(alpha - e -
\* 1) lies between kCachedPowersMinDecExp - (step - 1) and
\* kCachedPowersMaxDecExp, the index is below kCachedPowersSize, and the
\* exponent e_c of the entry satisfies alpha <= e_c + e + q <= gamma; the
\* arguments of the log functions are in their asserted domains.
C28_CachedPowerSelected ==
    CachedPowerReturned =>
        /\ ret.constants.asserts
        /\ ret.power.failed = "none"
        /\ ret.power.k >= ret.constants.minDecExp - (ret.constants.step - 1)
        /\ ret.power.k <= ret.constants.maxDecExp
        /\ ret.power.index >= 0
        /\ ret.power.index < ret.constants.size
        /\ ret.power.e_cached
              = FloorLog2Pow10(ret.power.k_cached) + 1 - ret.constants.q
        /\ ret.power.k_cached >= FloorLog2Pow10MinExp
        /\ ret.power.k_cached <= FloorLog2Pow10MaxExp
        /\ ret.constants.alpha
              <= ret.power.e_cached + ret.e + ret.constants.q
        /\ ret.power.e_cached + ret.e + ret.constants.q
              <= ret.constants.gamma

\* The last entry of a table with a step above one has been selected for a
\* k below the decimal exponent of the entry.
C28_Witness ==
    /\ CachedPowerReturned
    /\ ret.constants.step > 1
    /\ ret.power.index = ret.constants.size - 1
    /\ ret.power.k < ret.power.k_cached
    /\ ret.power.failed = "none"

\* ---------------------------------------------------------------------------
\* ExtendedGCD and ModularInverse
\* ---------------------------------------------------------------------------

\* d divides n, for d, n >= 0.
Divides(d, n) == \E m \in 0 .. n : n = d * m

\* g is the greatest common divisor of a and b (0 for a = b = 0).
IsGcd(g, a, b) ==
    /\ Divides(g, a)
    /\ Divides(g, b)
    /\ \A d \in 0 .. Max(a, b) : Divides(d, a) /\ Divides(d, b) => Divides(d, g)

\* C29: ExtendedGCD(a, b) returns (g, x, y) with g = gcd(a, b) and
\* a*x + b*y = g, for a, b >= 0; ModularInverse(a, m), for a >= 0 and m >= 1
\* with gcd(a, m) = 1, returns v with 0 <= v < m and a*v congruent to 1
\* modulo m; the assertion (a * m) % 2**bits == 1 of PrintTable holds for
\* every power of an odd base below 2**bits.
C29_GcdAndInverse ==
    /\ call.fn = "ExtendedGCD" =>
          /\ IsGcd(ret.r[1], call.args[1], call.args[2])
          /\ call.args[1] * ret.r[2] + call.args[2] * ret.r[3] = ret.r[1]
    /\ call.fn = "ModularInverse" =>
          /\ ret.r.asserts <=> IsGcd(1, call.args[1], call.args[2])
          /\ ret.r.asserts =>
                /\ 0 <= ret.r.v
                /\ ret.r.v < call.args[2]
                /\ (call.args[1] * ret.r.v - 1) % call.args[2] = 0
    /\ call.fn = "PrintTable" =>
          /\ ret.r.asserts
          /\ \A i \in 1 .. Len(ret.r.rows) :
                /\ ret.r.rows[i].asserts
                /\ ret.r.rows[i].m >= 0
                /\ ret.r.rows[i].m < 2^call.args[2]
                /\ (ret.r.rows[i].a * ret.r.rows[i].m) % 2^call.args[2] = 1

\* ExtendedGCD has returned a negative coefficient for arguments with a
\* common divisor above one, after more than one recursive call.
C29_Witness ==
    /\ call.fn = "ExtendedGCD"
    /\ ret.r[1] > 1
    /\ ret.r[2] < 0
    /\ call.args[2] % call.args[1] # 0
    /\ call.args[1] % (call.args[2] % call.args[1]) # 0

\* ---------------------------------------------------------------------------
\* EuclidMin and EuclidMax
\* ---------------------------------------------------------------------------

\* The residues (multiplier * x) mod modulo for 1 <= x <= maximum.
Residues(multiplier, modulo, maximum) ==
    {(multiplier * x) % modulo : x \in 1 .. maximum}

IsLeast(r, S) == r \in S /\ \A y \in S : r <= y
IsGreatest(r, S) == r \in S /\ \A y \in S : y <= r

\* C30: for multiplier, modulo, maximum >= 1, EuclidMin returns the least
\* and EuclidMax the greatest of the residues (multiplier * x) mod modulo,
\* 1 <= x <= maximum.
C30_MinAndMax ==
    /\ call.fn = "EuclidMin" =>
          IsLeast(ret.r, Residues(call.args[1], call.args[2], call.args[3]))
    /\ call.fn = "EuclidMax" =>
          IsGreatest(ret.r, Residues(call.args[1], call.args[2], call.args[3]))

\* EuclidMax has returned from its loops (maximum is below modulo / c) a
\* maximum that is not modulo - c, for a multiplier that has a divisor in
\* common with modulo.
C30_Witness ==
    /\ call.fn = "EuclidMax"
    /\ Gcd(call.args[1], call.args[2]) > 1
    /\ call.args[3] < call.args[2] \div Gcd(call.args[1], call.args[2])
    /\ ret.r # call.args[2] - Gcd(call.args[1], call.args[2])
    /\ ret.r > 0

===========================================================================
